---------------------------- MODULE Spec2Model ----------------------------
(***************************************************************************)
(* A model of the software rasterizer (Xzyaihni/rendererthingy).           *)
(*                                                                         *)
(* f64 values are modelled as exact rationals <<n, d>> in lowest terms     *)
(* with d > 0; NaN is <<0, 0>> and compares false with everything, as in   *)
(* IEEE 754.  Rounding error of the floating point operations is not       *)
(* modelled: the formulas below hold of the real-number results.           *)
(* usize values are modelled as integers; a negative integer v stands for  *)
(* the wrapped value 2^64 + v.                                             *)
(***************************************************************************)
EXTENDS Integers, Sequences, FiniteSets, TLC

(***************************************************************************)
(* Bounds of the model.                                                    *)
(***************************************************************************)
\* largest `amount` handed to Interpolator::interpolator
MaxAmount == 3
\* number of items requested from an InterpolaterIter beyond `amount`
ExtraItems == 1
\* largest pixel coordinate of an endpoint handed to line_points
LineMax == 3
\* size of the surface that set_pixel_data is called on directly
SurfW == 2
SurfH == 1
\* largest number of writes admitted to the depth test in one frame
MaxWrites == 2
\* size of the surface that triangles are drawn on
TriW == 3
TriH == 2
\* largest number of triangle() calls in one frame of a scene
MaxTriangles == 2
\* the loader reads another face while the mesh has fewer triangles
MaxMeshTriangles == 2
\* size of the Texture that is looked up
TexW == 2
TexH == 2

\* the surface of SpecQuad is QuadW x QuadH pixels
QuadW == 4

QuadH == 4
\* draw_length begins another frame while fewer than MaxFrames were begun
MaxFrames == 2
\* largest number of command-line arguments handed to Config::parse
MaxArgs == 3
\* largest number of lines of an OBJ file the loader reads
MaxObjLines == 4

(***************************************************************************)
(* f64 arithmetic.                                                         *)
(***************************************************************************)
RECURSIVE GCD(_, _)
GCD(a, b) == IF b = 0 THEN a ELSE GCD(b, a % b)

Abs(x) == IF x < 0 THEN -x ELSE x

NaN == <<0, 0>>

IsNaN(a) == a[2] = 0

Rat(n, d) ==
    IF d = 0 THEN NaN
    ELSE LET g == GCD(Abs(n), Abs(d))
             s == IF d < 0 THEN -1 ELSE 1
         IN  <<(s * n) \div g, (s * d) \div g>>

FInt(n) == <<n, 1>>

FAdd(a, b) == IF IsNaN(a) \/ IsNaN(b) THEN NaN
              ELSE Rat(a[1] * b[2] + b[1] * a[2], a[2] * b[2])

FSub(a, b) == IF IsNaN(a) \/ IsNaN(b) THEN NaN
              ELSE Rat(a[1] * b[2] - b[1] * a[2], a[2] * b[2])

FMul(a, b) == IF IsNaN(a) \/ IsNaN(b) THEN NaN
              ELSE Rat(a[1] * b[1], a[2] * b[2])

\* a / (n as f64) for a usize n >= 1
FDivUsize(a, n) == IF IsNaN(a) THEN NaN ELSE Rat(a[1], a[2] * n)

FLt(a, b) == ~IsNaN(a) /\ ~IsNaN(b) /\ a[1] * b[2] < b[1] * a[2]

FGt(a, b) == FLt(b, a)

\* a / b; a division by zero, which gives an infinity or NaN, is NaN here
FDiv(a, b) == IF IsNaN(a) \/ IsNaN(b) THEN NaN
              ELSE Rat(a[1] * b[2], a[2] * b[1])

\* sqrt of a number that has a rational root; of no other
FSqrt(a) ==
    IF IsNaN(a) \/ a[1] < 0 THEN NaN
    ELSE <<CHOOSE r \in 0..a[1] : r * r = a[1], CHOOSE r \in 1..a[2] : r * r = a[2]>>

FMin(a, b) == IF IsNaN(a) THEN b ELSE IF IsNaN(b) THEN a
              ELSE IF FLt(b, a) THEN b ELSE a

FMax(a, b) == IF IsNaN(a) THEN b ELSE IF IsNaN(b) THEN a
              ELSE IF FLt(a, b) THEN b ELSE a

(***************************************************************************)
(* renderer/common.rs: interpolated payloads and the Interpolator.         *)
(***************************************************************************)
\* number of channels of an Interpolated payload (depth, world position,
\* normal, uv)
VALUES_AMOUNT == 9

Channels == 1..VALUES_AMOUNT

\* ShaderValue::Depth as usize, plus one (sequences start at 1)
DepthChannel == 1

INTERPOLATED_ZEROS == [c \in Channels |-> FInt(0)]

\* a payload whose depth is d and whose other channels all carry a
Payload(d, a) == [c \in Channels |-> IF c = DepthChannel THEN d ELSE a]

IValue_reversed(v) == [lower |-> v.upper, upper |-> v.lower]

IValue_interpolator(v, amount) ==
    [start |-> v.lower, step |-> FDivUsize(FSub(v.upper, v.lower), amount)]

\* the mutant returns the value after the increment
IValueIter_next_PostIncrement(it) ==
    <<FAdd(it.start, it.step), [it EXCEPT !.start = FAdd(it.start, it.step)]>>

\* <<the item returned, the iterator afterwards>>
IValueIter_next(it) ==
    <<it.start, [it EXCEPT !.start = FAdd(it.start, it.step)]>>

combine_interpolated(p0, p1) ==
    [c \in Channels |-> [lower |-> p0[c], upper |-> p1[c]]]

Interpolator_new(values) == values

\* new_reversed without the swap
Interpolator_new_reversed_NoSwap(values) == Interpolator_new(values)

Interpolator_new_reversed(values) ==
    Interpolator_new([c \in Channels |-> IValue_reversed(values[c])])

Interpolator_interpolator(values, amount) ==
    [c \in Channels |-> IValue_interpolator(values[c], amount + 1)]

InterpolaterIter_next(iter) ==
    <<[c \in Channels |-> IValueIter_next(iter[c])[1]],
      [c \in Channels |-> IValueIter_next(iter[c])[2]]>>

\* the first n items of an InterpolaterIter, in order
RECURSIVE IterTake(_, _)
IterTake(iter, n) ==
    IF n = 0 THEN <<>>
    ELSE LET r == InterpolaterIter_next(iter)
         IN  <<r[1]>> \o IterTake(r[2], n - 1)

(***************************************************************************)
(* renderer/normal_drawable/drawable.rs: the line walks.  A walk is the    *)
(* sequence of Point<usize> values handed to draw_function, in call order. *)
(***************************************************************************)
Point(x, y, interpolated) == [x |-> x, y |-> y, interpolated |-> interpolated]

\* pairs each position of a walk with the next item of the iterator
WithItems(positions, iter) ==
    LET items == IterTake(iter, Len(positions))
    IN  [k \in 1..Len(positions) |->
            Point(positions[k][1], positions[k][2], items[k])]

\* the loop of line_low_points from x on: <<x, y>> of every call
RECURSIVE LowWalk(_, _, _, _, _, _, _)
LowWalk(x, x1, y, error, dx, dy, sy) ==
    IF x > x1 THEN <<>>
    ELSE <<<<x, y>>>> \o
         (IF error > 0
          THEN LowWalk(x + 1, x1, y + sy, error + 2 * (dy - dx), dx, dy, sy)
          ELSE LowWalk(x + 1, x1, y, error + 2 * dy, dx, dy, sy))

\* the mutant steps y upwards whatever the sign of dy
line_low_points_Rising(x0, y0, x1, y1, interpolator) ==
    LET dx == x1 - x0
        dy0 == y1 - y0
        dy == IF dy0 < 0 THEN -dy0 ELSE dy0
    IN  WithItems(LowWalk(x0, x1, y0, (2 * dy) - dx, dx, dy, 1),
                  Interpolator_interpolator(interpolator, dx))

line_low_points(x0, y0, x1, y1, interpolator) ==
    LET dx == x1 - x0
        dy0 == y1 - y0
        sy == IF dy0 < 0 THEN -1 ELSE 1
        dy == IF dy0 < 0 THEN -dy0 ELSE dy0
    IN  WithItems(LowWalk(x0, x1, y0, (2 * dy) - dx, dx, dy, sy),
                  Interpolator_interpolator(interpolator, dx))

\* the loop of line_high_points from y on: <<x, y>> of every call
RECURSIVE HighWalk(_, _, _, _, _, _, _)
HighWalk(y, y1, x, error, dx, dy, sx) ==
    IF y > y1 THEN <<>>
    ELSE <<<<x, y>>>> \o
         (IF error > 0
          THEN HighWalk(y + 1, y1, x + sx, error + 2 * (dx - dy), dx, dy, sx)
          ELSE HighWalk(y + 1, y1, x, error + 2 * dx, dx, dy, sx))

line_high_points(x0, y0, x1, y1, interpolator) ==
    LET dx0 == x1 - x0
        dy == y1 - y0
        sx == IF dx0 < 0 THEN -1 ELSE 1
        dx == IF dx0 < 0 THEN -dx0 ELSE dx0
    IN  WithItems(HighWalk(y0, y1, x0, (2 * dx) - dy, dx, dy, sx),
                  Interpolator_interpolator(interpolator, dy))

line_vertical(x, y, length, interpolator) ==
    WithItems([k \in 1..length |-> <<x, y + k - 1>>],
              Interpolator_interpolator(interpolator, length))

line_horizontal(y, x, length, interpolator) ==
    WithItems([k \in 1..length |-> <<x + k - 1, y>>],
              Interpolator_interpolator(interpolator, length))

line_points(p0, p1) ==
    LET values == combine_interpolated(p0.interpolated, p1.interpolated)
        y_abs_diff == Abs(p1.y - p0.y)
        x_abs_diff == Abs(p1.x - p0.x)
    IN  IF p0.x = p1.x
        THEN IF p0.y > p1.y
             THEN line_vertical(p0.x, p1.y, y_abs_diff + 1,
                                Interpolator_new_reversed(values))
             ELSE line_vertical(p0.x, p0.y, y_abs_diff + 1,
                                Interpolator_new(values))
        ELSE IF p0.y = p1.y
        THEN IF p0.x > p1.x
             THEN line_horizontal(p0.y, p1.x, x_abs_diff + 1,
                                  Interpolator_new_reversed(values))
             ELSE line_horizontal(p0.y, p0.x, x_abs_diff + 1,
                                  Interpolator_new(values))
        ELSE IF y_abs_diff < x_abs_diff
        THEN IF p0.x > p1.x
             THEN line_low_points(p1.x, p1.y, p0.x, p0.y,
                                  Interpolator_new_reversed(values))
             ELSE line_low_points(p0.x, p0.y, p1.x, p1.y,
                                  Interpolator_new(values))
        ELSE IF p0.y > p1.y
             THEN line_high_points(p1.x, p1.y, p0.x, p0.y,
                                   Interpolator_new_reversed(values))
             ELSE line_high_points(p0.x, p0.y, p1.x, p1.y,
                                   Interpolator_new(values))

(***************************************************************************)
(* renderer/normal_drawable/color_shader.rs and the shaders.               *)
(***************************************************************************)
Color_new(r, g, b) == [r |-> r, g |-> g, b |-> b]

Color_lerp_single(p0, p1, a) ==
    FAdd(FMul(p0, FSub(FInt(1), a)), FMul(p1, a))

Color_lerp(self, other, a) ==
    Color_new(Color_lerp_single(self.r, other.r, a),
              Color_lerp_single(self.g, other.g, a),
              Color_lerp_single(self.b, other.b, a))

\* Option<&FaceShader>: None, or the position of the shader in FaceShaders
None == 0

\* the light of main
MainLight == [position |-> <<FInt(50), FInt(20), FInt(30)>>,
              intensity |-> Rat(2, 5)]

\* the face shaders a write may refer to: the default material without
\* lights and with the light of main
FaceShaders ==
    << [color |-> Color_new(Rat(1, 2), Rat(1, 2), Rat(1, 2)), lights |-> <<>>],
       [color |-> Color_new(Rat(1, 2), Rat(1, 2), Rat(1, 2)),
        lights |-> <<MainLight>>] >>

ShaderRefs == 1..Len(FaceShaders)

LitShaderRefs == {r \in ShaderRefs : FaceShaders[r].lights # <<>>}

PixelInfo_new(interpolated) == [shader |-> None, interpolated |-> interpolated]

\* the mutant stores the payload and keeps the shader of the record
PixelInfo_set_KeepsShader(self, shader, interpolated) ==
    [shader |-> self.shader, interpolated |-> interpolated]

PixelInfo_set(self, shader, interpolated) ==
    [shader |-> shader, interpolated |-> interpolated]

\* The sum over the lights needs a square root and a 32nd power, which the
\* rationals do not have: for a shader with lights the colour is kept as the
\* term `lit` of exactly the values execute reads (the colour, the lights,
\* the world position and the normal), equal for equal inputs.
execute(pixel) ==
    IF pixel.shader = None
    THEN Color_new(FInt(0), FInt(0), FInt(0))
    ELSE LET shader == FaceShaders[pixel.shader]
             world_point == <<pixel.interpolated[2], pixel.interpolated[3],
                              pixel.interpolated[4]>>
             normal == <<pixel.interpolated[5], pixel.interpolated[6],
                         pixel.interpolated[7]>>
             object_color == shader.color
         IN  IF shader.lights = <<>>
             THEN LET ambient == Rat(1, 5)
                      brightness == FAdd(ambient, FInt(0))
                      darkened ==
                          Color_lerp(Color_new(FInt(0), FInt(0), FInt(0)),
                                     object_color,
                                     FMin(FAdd(brightness, Rat(3, 10)), FInt(1)))
                  IN  Color_lerp(darkened,
                                 Color_new(FInt(1), FInt(1), FInt(1)),
                                 FMax(FSub(brightness, Rat(3, 10)), FInt(0)))
             ELSE [lit |-> <<object_color, shader.lights, world_point, normal>>]

(***************************************************************************)
(* renderer/normal_drawable.rs: the two surfaces.  Buffers are sequences;  *)
(* the element at index i of a Vec is element i + 1 of the sequence.       *)
(* A call of set_pixel_data ends "returned", "wrapped" (it returned after  *)
(* an arithmetic overflow that the build let wrap) or "panicked" (the      *)
(* build checks overflow).  `wraps` is the build's choice.                 *)
(***************************************************************************)
\* the mutant starts the depths at 0.0
NormalDrawable_surface_ZeroDepth(size) ==
    LET total_size == size[1] * size[2]
    IN  [size |-> size,
         depths |-> [i \in 1..total_size |-> FInt(0)],
         colors |-> [i \in 1..total_size |->
                        Color_new(FInt(0), FInt(0), FInt(0))]]

NormalDrawable_surface(size) ==
    LET total_size == size[1] * size[2]
    IN  [size |-> size,
         depths |-> [i \in 1..total_size |-> FInt(1)],
         colors |-> [i \in 1..total_size |->
                        Color_new(FInt(0), FInt(0), FInt(0))]]

DeferredDrawable_surface(size) ==
    LET total_size == size[1] * size[2]
        empty == [INTERPOLATED_ZEROS EXCEPT ![DepthChannel] = FInt(1)]
    IN  [size |-> size,
         pixels |-> [i \in 1..total_size |-> PixelInfo_new(empty)]]

\* the mutant takes every pixel of a row for its first
PixelIndex_ColumnZero(size, point) == (size[2] - point.y - 1) * size[1]

\* (size.1 - point.y - 1) * size.0 + point.x
PixelIndex(size, point) == (size[2] - point.y - 1) * size[1] + point.x

\* the usize subtraction size.1 - point.y - 1 goes below zero
IndexOverflows(size, point) == size[2] - point.y - 1 < 0

\* the mutant does not reject a depth below -1
Rejected_NoLowerBound(size, point) ==
    LET depth == point.interpolated[DepthChannel]
    IN  \/ FGt(depth, FInt(1))
        \/ point.x >= size[1]
        \/ point.y >= size[2]

\* the range checks of set_pixel_data: TRUE when the write is discarded
Rejected(size, point) ==
    LET depth == point.interpolated[DepthChannel]
    IN  \/ FLt(depth, FInt(-1))
        \/ FGt(depth, FInt(1))
        \/ point.x >= size[1]
        \/ point.y >= size[2]

\* the mutant lets a write of equal depth win
NormalSurface_set_pixel_data_Le(self, point, shader, wraps) ==
    LET index == PixelIndex(self.size, point)
        depth == point.interpolated[DepthChannel]
    IN  IF IndexOverflows(self.size, point) /\ ~wraps
        THEN [self |-> self, executed |-> 0, outcome |-> "panicked"]
        ELSE IF Rejected(self.size, point)
        THEN [self |-> self, executed |-> 0,
              outcome |-> IF IndexOverflows(self.size, point)
                          THEN "wrapped" ELSE "returned"]
        ELSE IF ~FGt(depth, self.depths[index + 1])
        THEN [self |-> [self EXCEPT
                  !.colors[index + 1] =
                      execute([interpolated |-> point.interpolated,
                               shader |-> shader]),
                  !.depths[index + 1] = depth],
              executed |-> 1, outcome |-> "returned"]
        ELSE [self |-> self, executed |-> 0, outcome |-> "returned"]

\* the mutant shades before the depth test
NormalSurface_set_pixel_data_ShadeFirst(self, point, shader, wraps) ==
    LET index == PixelIndex(self.size, point)
        depth == point.interpolated[DepthChannel]
    IN  IF IndexOverflows(self.size, point) /\ ~wraps
        THEN [self |-> self, executed |-> 0, outcome |-> "panicked"]
        ELSE IF Rejected(self.size, point)
        THEN [self |-> self, executed |-> 0,
              outcome |-> IF IndexOverflows(self.size, point)
                          THEN "wrapped" ELSE "returned"]
        ELSE IF FLt(depth, self.depths[index + 1])
        THEN [self |-> [self EXCEPT
                  !.colors[index + 1] =
                      execute([interpolated |-> point.interpolated,
                               shader |-> shader]),
                  !.depths[index + 1] = depth],
              executed |-> 1, outcome |-> "returned"]
        ELSE [self |-> self, executed |-> 1, outcome |-> "returned"]

\* [self: the surface afterwards, executed: the number of evaluations of
\*  color_shader::execute, outcome: how the call ended]
NormalSurface_set_pixel_data(self, point, shader, wraps) ==
    LET index == PixelIndex(self.size, point)
        depth == point.interpolated[DepthChannel]
    IN  IF IndexOverflows(self.size, point) /\ ~wraps
        THEN [self |-> self, executed |-> 0, outcome |-> "panicked"]
        ELSE IF Rejected(self.size, point)
        THEN [self |-> self, executed |-> 0,
              outcome |-> IF IndexOverflows(self.size, point)
                          THEN "wrapped" ELSE "returned"]
        ELSE IF FLt(depth, self.depths[index + 1])
        THEN [self |-> [self EXCEPT
                  !.colors[index + 1] =
                      execute([interpolated |-> point.interpolated,
                               shader |-> shader]),
                  !.depths[index + 1] = depth],
              executed |-> 1, outcome |-> "returned"]
        ELSE [self |-> self, executed |-> 0, outcome |-> "returned"]

\* the mutant shades the payload when it stores it
DeferredSurface_set_pixel_data_Shades(self, point, shader, wraps) ==
    LET index == PixelIndex(self.size, point)
        depth == point.interpolated[DepthChannel]
    IN  IF IndexOverflows(self.size, point) /\ ~wraps
        THEN [self |-> self, executed |-> 0, outcome |-> "panicked"]
        ELSE IF Rejected(self.size, point)
        THEN [self |-> self, executed |-> 0,
              outcome |-> IF IndexOverflows(self.size, point)
                          THEN "wrapped" ELSE "returned"]
        ELSE IF FLt(depth, self.pixels[index + 1].interpolated[DepthChannel])
        THEN [self |-> [self EXCEPT !.pixels[index + 1] =
                  PixelInfo_set(@, shader, point.interpolated)],
              executed |-> 1, outcome |-> "returned"]
        ELSE [self |-> self, executed |-> 0, outcome |-> "returned"]

\* the mutant lets a write at the stored depth replace the record
DeferredSurface_set_pixel_data_Le(self, point, shader, wraps) ==
    LET index == PixelIndex(self.size, point)
        depth == point.interpolated[DepthChannel]
    IN  IF IndexOverflows(self.size, point) /\ ~wraps
        THEN [self |-> self, executed |-> 0, outcome |-> "panicked"]
        ELSE IF Rejected(self.size, point)
        THEN [self |-> self, executed |-> 0,
              outcome |-> IF IndexOverflows(self.size, point)
                          THEN "wrapped" ELSE "returned"]
        ELSE IF ~FGt(depth, self.pixels[index + 1].interpolated[DepthChannel])
        THEN [self |-> [self EXCEPT !.pixels[index + 1] =
                  PixelInfo_set(@, shader, point.interpolated)],
              executed |-> 0, outcome |-> "returned"]
        ELSE [self |-> self, executed |-> 0, outcome |-> "returned"]

DeferredSurface_set_pixel_data(self, point, shader, wraps) ==
    LET index == PixelIndex(self.size, point)
        depth == point.interpolated[DepthChannel]
    IN  IF IndexOverflows(self.size, point) /\ ~wraps
        THEN [self |-> self, executed |-> 0, outcome |-> "panicked"]
        ELSE IF Rejected(self.size, point)
        THEN [self |-> self, executed |-> 0,
              outcome |-> IF IndexOverflows(self.size, point)
                          THEN "wrapped" ELSE "returned"]
        ELSE IF FLt(depth, self.pixels[index + 1].interpolated[DepthChannel])
        THEN [self |-> [self EXCEPT !.pixels[index + 1] =
                  PixelInfo_set(@, shader, point.interpolated)],
              executed |-> 0, outcome |-> "returned"]
        ELSE [self |-> self, executed |-> 0, outcome |-> "returned"]

\* calls made on the DrawableDisplay sink
SinkPrepare(size) == [op |-> "prepare", size |-> size]

SinkDisplay(size, colors) == [op |-> "display", size |-> size, colors |-> colors]

\* the mutant delivers the pixels before it prepares the sink
NormalSurface_display_NoPrepareFirst(self) ==
    [calls |-> <<SinkDisplay(self.size, self.colors), SinkPrepare(self.size)>>,
     executed |-> 0]

\* [calls: the calls made on the sink, in order, executed: the number of
\*  evaluations of color_shader::execute]
NormalSurface_display(self) ==
    [calls |-> <<SinkPrepare(self.size), SinkDisplay(self.size, self.colors)>>,
     executed |-> 0]

DeferredSurface_display(self) ==
    LET colors == [i \in 1..Len(self.pixels) |-> execute(self.pixels[i])]
    IN  [calls |-> <<SinkPrepare(self.size), SinkDisplay(self.size, colors)>>,
         executed |-> Len(self.pixels)]

(***************************************************************************)
(* Input values.                                                           *)
(***************************************************************************)
\* depths: below the range, the near plane, inside, the far plane, above
DepthVals == {Rat(-3, 2), FInt(-1), FInt(0), FInt(1), Rat(3, 2)}

AttrVals == {FInt(0), Rat(3, 10)}

\* depths handed to set_pixel_data directly
WriteDepths == DepthVals \cup {NaN}

\* the other channels of a payload handed to set_pixel_data directly
WriteAttr == Rat(3, 10)

\* payloads of the endpoints of a line
LinePayloads == {Payload(FInt(0), FInt(0)), Payload(FInt(1), Rat(3, 10)),
                 Payload(Rat(-1, 2), FInt(1))}

(***************************************************************************)
(* State.                                                                  *)
(***************************************************************************)
VARIABLES
    itValues,   \* Interpolator.values of the interpolator under test
    itAmount,   \* the amount handed to Interpolator::interpolator
    itIter,     \* the InterpolaterIter
    itItems,    \* the items it has returned so far
    lnCalled,   \* whether line_points has been called
    lnP0,       \* its first endpoint
    lnP1,       \* its second endpoint
    lnOut,      \* the points it handed to draw_function, in order
    pc,         \* "idle", "drawing", "displayed" or "panicked"
    normal,     \* the NormalSurface of the frame
    deferred,   \* the DeferredSurface of the frame, given the same calls
    logN,       \* calls the NormalSurface made on its sink in this frame
    logD,       \* calls the DeferredSurface made on its sink in this frame
    shades,     \* evaluations of execute in this frame, per surface and phase
    hist,       \* per pixel <<x, y>>: the in-range writes made to it, in order
    outcome,    \* how the last set_pixel_data ended on <<normal, deferred>>
    scene,      \* the triangle() calls made in this frame, in order
    filled,     \* the pixels they handed to set_pixel_data, in call order
    model,      \* the Model the loader has built so far
    drawT,      \* the triangle index Object::draw is about to visit
    drawCalls,  \* the triangle indices it has passed to triangle() this frame
    texPosition, \* the Point2D handed to Texture::pixel
    texResult,  \* how the lookup ended and the texel it read
    tfTransform, \* the Transform of the Object under test
    tfCamera,   \* its Camera
    tfVertex,   \* the model vertex update_transform is given
    tfPoints,   \* what update_transform computed from it
    config,     \* the Config that main runs with
    object,     \* the Object of main: its Transform and its cached points
    written,    \* ConsoleScreen.written
    terminal,   \* the <<columns, rows>> that terminal_size reports
    mainPc,     \* the statement of draw_length that runs next
    counts,     \* surface(), prepare and display calls made by draw_length
    drawnWith,  \* the Object as each Object::draw call found it, in order
    screen,     \* the colours the sink was last given, or <<>>
    cfgArgs,    \* the command line handed to Config::parse
    cfgResult,  \* what Config::parse returned for it, or <<>>
    walked,     \* three local points and points_slice after their edge walks
    loader      \* the ModelParser reading an OBJ file, and its parent Model

interpVars == <<itValues, itAmount, itIter, itItems>>

lineVars == <<lnCalled, lnP0, lnP1, lnOut>>

surfVars == <<pc, normal, deferred, logN, logD, shades, hist, outcome, scene, filled>>

drawVars == <<model, drawT, drawCalls>>

mainVars == <<config, object, written, terminal, mainPc, counts, drawnWith, screen>>

cfgVars == <<cfgArgs, cfgResult>>

lateVars == <<cfgVars, walked, loader>>

restVars == <<mainVars, lateVars>>

texTfVars == <<texPosition, texResult, tfTransform, tfCamera, tfVertex, tfPoints>>

mathVars == <<texTfVars, restVars>>

vars == <<interpVars, lineVars, surfVars, drawVars, mathVars>>

\* the state of the parts a specification does not drive
InterpIdle ==
    /\ itValues = <<>>
    /\ itAmount = 0
    /\ itIter = <<>>
    /\ itItems = <<>>

LineIdle ==
    /\ lnCalled = FALSE
    /\ lnP0 = Point(0, 0, INTERPOLATED_ZEROS)
    /\ lnP1 = Point(0, 0, INTERPOLATED_ZEROS)
    /\ lnOut = <<>>

\* Model::new()
Model_new ==
    [indices |-> <<>>, material_indices |-> <<>>, normals |-> <<>>, uvs |-> <<>>]

DrawIdle ==
    /\ model = Model_new
    /\ drawT = 0
    /\ drawCalls = <<>>

NoLookup == [outcome |-> "none", x |-> 0, y |-> 0, index |-> 0]

TexIdle ==
    /\ texPosition = <<FInt(0), FInt(0)>>
    /\ texResult = NoLookup

\* update_transform has not run
NoPoints ==
    [done |-> FALSE, combined |-> <<>>, world_point |-> <<>>,
     transformed |-> <<>>, point |-> <<>>]

TfIdle ==
    /\ tfTransform = <<>>
    /\ tfCamera = <<>>
    /\ tfVertex = <<>>
    /\ tfPoints = NoPoints

NoCounts == [surface |-> 0, prepare |-> 0, display |-> 0]

\* main has not run
MainIdle ==
    /\ config = <<>>
    /\ object = <<>>
    /\ written = FALSE
    /\ terminal = <<>>
    /\ mainPc = "idle"
    /\ counts = NoCounts
    /\ drawnWith = <<>>
    /\ screen = <<>>

\* Config::parse has not been given a command line
CfgIdle ==
    /\ cfgArgs = <<>>
    /\ cfgResult = <<>>

NotWalked == [points |-> <<>>, done |-> FALSE, min_y |-> 0, ok |-> TRUE, spans |-> <<>>]

\* ModelParser::new on Model::new, before any line
ModelParser_new ==
    [materials |-> [material_indices |-> {}, materials |-> <<>>,
                    current_material |-> <<>>],
     parent |-> [materials |-> <<>>, material_indices |-> <<>>],
     usemtl |-> <<>>,
     lines |-> 0,
     result |-> "reading"]

LateIdle == CfgIdle /\ walked = NotWalked /\ loader = ModelParser_new

RestIdle == MainIdle /\ LateIdle

MathIdle == TexIdle /\ TfIdle /\ RestIdle

NoShades == [nWrite |-> 0, nDisplay |-> 0, dWrite |-> 0, dDisplay |-> 0]

Pixels(size) == (0..(size[1] - 1)) \X (0..(size[2] - 1))

\* what draw() has after `drawable.surface()`, on both kinds of surface
FreshFrame(size) ==
    [normal |-> NormalDrawable_surface(size),
     deferred |-> DeferredDrawable_surface(size),
     shades |-> NoShades,
     hist |-> [q \in Pixels(size) |-> <<>>],
     filled |-> <<>>,
     outcome |-> <<"none", "none">>]

Frame ==
    [normal |-> normal, deferred |-> deferred, shades |-> shades,
     hist |-> hist, filled |-> filled, outcome |-> outcome]

IsFrame(F) ==
    /\ normal = F.normal
    /\ deferred = F.deferred
    /\ shades = F.shades
    /\ hist = F.hist
    /\ filled = F.filled
    /\ outcome = F.outcome

SetFrame(F) ==
    /\ normal' = F.normal
    /\ deferred' = F.deferred
    /\ shades' = F.shades
    /\ hist' = F.hist
    /\ filled' = F.filled
    /\ outcome' = F.outcome

Panicked(F) == "panicked" \in {F.outcome[1], F.outcome[2]}

\* the write is in bounds and its depth is a number in [-1, 1]
InRangeWrite(size, point) ==
    LET depth == point.interpolated[DepthChannel]
    IN  /\ point.x \in 0..(size[1] - 1)
        /\ point.y \in 0..(size[2] - 1)
        /\ ~IsNaN(depth)
        /\ ~FLt(depth, FInt(-1))
        /\ ~FLt(FInt(1), depth)

\* one set_pixel_data(point, shader) on both surfaces; `call` names the
\* triangle() call it is part of (0: none) in the history
WritePixel(F, point, shader, wraps, call) ==
    IF Panicked(F) THEN F
    ELSE LET n == NormalSurface_set_pixel_data(F.normal, point, shader, wraps)
             d == DeferredSurface_set_pixel_data(F.deferred, point, shader, wraps)
         IN  [normal |-> n.self,
              deferred |-> d.self,
              shades |-> [F.shades EXCEPT !.nWrite = @ + n.executed,
                                          !.dWrite = @ + d.executed],
              hist |-> IF InRangeWrite(F.normal.size, point)
                       THEN [F.hist EXCEPT ![<<point.x, point.y>>] =
                                Append(@, [interpolated |-> point.interpolated,
                                           shader |-> shader,
                                           call |-> call])]
                       ELSE F.hist,
              filled |-> IF call = 0 THEN F.filled
                         ELSE Append(F.filled, [x |-> point.x, y |-> point.y,
                                                shader |-> shader, call |-> call]),
              outcome |-> <<n.outcome, d.outcome>>]

SurfIdle ==
    /\ pc = "idle"
    /\ IsFrame(FreshFrame(<<0, 0>>))
    /\ logN = <<>>
    /\ logD = <<>>
    /\ scene = <<>>

(***************************************************************************)
(* renderer/normal_drawable/drawable.rs: triangle().                       *)
(***************************************************************************)
\* usize::MAX
USIZE_MAX == -1

\* a < b on usize values
ULt(a, b) == IF (a < 0) = (b < 0) THEN a < b ELSE b < 0

\* `value as usize` of an f64: towards zero, saturating; NaN gives 0
FAsUsize(a) ==
    IF IsNaN(a) \/ a[1] < 0 THEN 0 ELSE a[1] \div a[2]

\* NormalSurface::to_local and DeferredSurface::to_local, which are the same
to_local(size, point) ==
    Point(FAsUsize(FMul(point.x, FInt(size[1]))),
          FAsUsize(FMul(point.y, FInt(size[2]))),
          point.interpolated)

PointDesc(limit, interpolated) == [limit |-> limit, interpolated |-> interpolated]

\* the element points_slice starts with
SentinelLimits ==
    [lower |-> PointDesc(USIZE_MAX, INTERPOLATED_ZEROS),
     upper |-> PointDesc(0, INTERPOLATED_ZEROS)]

\* line_pixel on the rows y_points (never empty here); the row lookup
\* fails in either build when point.y is outside them (the subtraction or
\* the unwrap), which `ok` records
line_pixel(point, y_begin, y_points) ==
    IF ~y_points.ok THEN y_points
    ELSE IF point.y - y_begin < 0 \/ point.y - y_begin >= Len(y_points.rows)
    THEN [y_points EXCEPT !.ok = FALSE]
    ELSE LET limits == y_points.rows[point.y - y_begin + 1]
             desc == PointDesc(point.x, point.interpolated)
             lower == IF ULt(point.x, limits.lower.limit) THEN desc
                      ELSE limits.lower
             upper == IF ULt(limits.upper.limit, point.x) THEN desc
                      ELSE limits.upper
         IN  [y_points EXCEPT !.rows[point.y - y_begin + 1] =
                 [lower |-> lower, upper |-> upper]]

\* pixel_fn called on every point of a walk, in order
RECURSIVE WalkSpans(_, _, _, _)
WalkSpans(points, k, y_begin, y_points) ==
    IF k > Len(points) THEN y_points
    ELSE WalkSpans(points, k + 1, y_begin, line_pixel(points[k], y_begin, y_points))

\* the mutant returns its first argument
usize_min_First(a, b) == a

usize_min(a, b) == IF b < a THEN b ELSE a

usize_max(a, b) == IF b > a THEN b ELSE a

\* points_slice after the three edge walks of triangle()
TriangleSpans(p0, p1, p2) ==
    LET min_y == usize_min(p0.y, usize_min(p1.y, p2.y))
        max_y == usize_max(p0.y, usize_max(p1.y, p2.y))
        points_slice == [ok |-> TRUE,
                         rows |-> [k \in 1..(max_y - min_y + 1) |-> SentinelLimits]]
        after01 == WalkSpans(line_points(p0, p1), 1, min_y, points_slice)
        after12 == WalkSpans(line_points(p1, p2), 1, min_y, after01)
        after20 == WalkSpans(line_points(p2, p0), 1, min_y, after12)
    IN  [min_y |-> min_y, ok |-> after20.ok, spans |-> after20.rows]

\* the points the fill loop hands to set_pixel_data for one row, and how the
\* row's arithmetic ended: upper.limit - lower.limit below zero panics in a
\* build that checks overflow and wraps otherwise, and then the range
\* lower.limit .. lower.limit + line_length + 1 is taken on wrapped values
RowFill(y, limit, wraps) ==
    LET overflow == ULt(limit.upper.limit, limit.lower.limit)
        line_length == limit.upper.limit - limit.lower.limit
        values == combine_interpolated(limit.lower.interpolated,
                                       limit.upper.interpolated)
    IN  IF overflow /\ ~wraps THEN [points |-> <<>>, outcome |-> "panicked"]
        ELSE IF overflow
        THEN [points |->
                  IF ULt(limit.lower.limit, limit.lower.limit + line_length + 1)
                  THEN line_horizontal(y, limit.lower.limit, line_length + 1,
                                       Interpolator_new(values))
                  ELSE <<>>,
              outcome |-> "wrapped"]
        ELSE [points |-> line_horizontal(y, limit.lower.limit, line_length + 1,
                                         Interpolator_new(values)),
              outcome |-> "returned"]

RECURSIVE WritePixels(_, _, _, _, _, _)
WritePixels(F, points, k, shader, wraps, call) ==
    IF k > Len(points) \/ Panicked(F) THEN F
    ELSE WritePixels(WritePixel(F, points[k], shader, wraps, call),
                     points, k + 1, shader, wraps, call)

\* the fill loop of triangle() from row `index` (from 0) on
RECURSIVE FillRows(_, _, _, _, _, _, _)
FillRows(F, spans, min_y, index, shader, wraps, call) ==
    IF index >= Len(spans) \/ Panicked(F) THEN F
    ELSE LET row == RowFill(min_y + index, spans[index + 1], wraps)
         IN  IF row.outcome = "panicked"
             THEN [F EXCEPT !.outcome = <<"panicked", "panicked">>]
             ELSE FillRows(WritePixels(F, row.points, 1, shader, wraps, call),
                           spans, min_y, index + 1, shader, wraps, call)

\* Drawable::triangle(o0, o1, o2, shader) on both surfaces
triangle(F, o0, o1, o2, shader, wraps, call) ==
    LET p0 == to_local(F.normal.size, o0)
        p1 == to_local(F.normal.size, o1)
        p2 == to_local(F.normal.size, o2)
        t == TriangleSpans(p0, p1, p2)
    IN  IF Panicked(F) THEN F
        ELSE IF ~t.ok
        THEN [F EXCEPT !.outcome = <<"panicked", "panicked">>]
        ELSE FillRows(F, t.spans, t.min_y, 0, shader, wraps, call)

\* whether the call does a subtraction on usize that goes below zero: in the
\* fill loop for a row no walk visited, or in set_pixel_data for a row at
\* or above the height
TriangleOverflows(size, o0, o1, o2) ==
    LET t == TriangleSpans(to_local(size, o0), to_local(size, o1), to_local(size, o2))
    IN  /\ t.ok
        /\ \E i \in 1..Len(t.spans) :
              \/ ULt(t.spans[i].upper.limit, t.spans[i].lower.limit)
              \/ t.min_y + i - 1 >= size[2]

\* the builds that differ on the call: overflow checks on (FALSE) or off
TriangleBuilds(size, o0, o1, o2) ==
    IF TriangleOverflows(size, o0, o1, o2) THEN BOOLEAN ELSE {TRUE}

(***************************************************************************)
(* SpecInterp: an Interpolator, as the test tests::interpolation drives    *)
(* it: built from two payloads, asked for an iterator, and stepped.        *)
(***************************************************************************)
InterpInit ==
    \E d0 \in DepthVals, d1 \in DepthVals, a0 \in AttrVals, a1 \in AttrVals,
       amount \in 0..MaxAmount, rev \in BOOLEAN :
        LET values == combine_interpolated(Payload(d0, a0), Payload(d1, a1))
            interp == IF rev THEN Interpolator_new_reversed(values)
                      ELSE Interpolator_new(values)
        IN  /\ itValues = interp
            /\ itAmount = amount
            /\ itIter = Interpolator_interpolator(interp, amount)
            /\ itItems = <<>>
            /\ LineIdle
            /\ SurfIdle
            /\ DrawIdle
    /\ MathIdle
            /\ MathIdle

InterpNext ==
    /\ Len(itItems) < itAmount + ExtraItems
    /\ LET r == InterpolaterIter_next(itIter)
       IN  /\ itItems' = Append(itItems, r[1])
           /\ itIter' = r[2]
    /\ UNCHANGED <<itValues, itAmount, lineVars, surfVars, drawVars, mathVars>>

SpecInterp == InterpInit /\ [][InterpNext]_vars

C4_Expected(v, i, amount) ==
    LET a == Rat(i, amount + 1)
    IN  FAdd(FMul(v.lower, FSub(FInt(1), a)), FMul(v.upper, a))

(***************************************************************************)
(* C4: the i-th item (i = 0 .. amount-1) of interpolator(amount) is, on    *)
(* every channel, lower*(1 - i/(amount+1)) + upper*(i/(amount+1)); item 0  *)
(* is lower and consecutive items differ by (upper-lower)/(amount+1).      *)
(***************************************************************************)
C4_InterpolatorItems ==
    \A k \in 1..Len(itItems) : \A c \in Channels :
        (k - 1 < itAmount) =>
            /\ itItems[k][c] = C4_Expected(itValues[c], k - 1, itAmount)
            /\ (k = 1) => itItems[k][c] = itValues[c].lower
            /\ (k > 1) => FSub(itItems[k][c], itItems[k - 1][c])
                            = FDivUsize(FSub(itValues[c].upper, itValues[c].lower),
                                        itAmount + 1)

C4_Witness ==
    /\ itAmount = MaxAmount
    /\ Len(itItems) = itAmount
    /\ itValues[DepthChannel].lower # itValues[DepthChannel].upper

(***************************************************************************)
(* SpecLine: one call of Drawable::line_points with a sink that records    *)
(* what it is handed.                                                      *)
(***************************************************************************)
LineInit == InterpIdle /\ LineIdle /\ SurfIdle /\ DrawIdle /\ MathIdle

CallLinePoints ==
    /\ ~lnCalled
    /\ \E x0 \in 0..LineMax, y0 \in 0..LineMax, x1 \in 0..LineMax,
          y1 \in 0..LineMax, a \in LinePayloads, b \in LinePayloads :
        /\ lnP0' = Point(x0, y0, a)
        /\ lnP1' = Point(x1, y1, b)
        /\ lnOut' = line_points(Point(x0, y0, a), Point(x1, y1, b))
    /\ lnCalled' = TRUE
    /\ UNCHANGED <<interpVars, surfVars, drawVars, mathVars>>

SpecLine == LineInit /\ [][CallLinePoints]_vars

C3_IsCase ==
    /\ lnCalled
    /\ lnP0.x = 0 /\ lnP0.y = 0
    /\ lnP1.x >= 1 /\ lnP1.y = 0

(***************************************************************************)
(* C3: a line from (0,0) with payload A to (N,0) with payload B, N >= 1,   *)
(* delivers exactly N+1 samples, sample 0 equal to A, sample N equal to B, *)
(* and sample i equal to A + i/N*(B-A) on every channel.                   *)
(***************************************************************************)
C3_LineInterpolationExact ==
    C3_IsCase =>
        LET N == lnP1.x
            A == lnP0.interpolated
            B == lnP1.interpolated
        IN  /\ Len(lnOut) = N + 1
            /\ lnOut[1].interpolated = A
            /\ lnOut[N + 1].interpolated = B
            /\ \A i \in 0..N : \A c \in Channels :
                   lnOut[i + 1].interpolated[c]
                       = FAdd(A[c], FMul(Rat(i, N), FSub(B[c], A[c])))

(***************************************************************************)
(* SpecSurf: frames drawn by calling set_pixel_data directly, as           *)
(* Drawable::line and Drawable::triangle do pixel by pixel, on a           *)
(* NormalSurface and on a DeferredSurface that receive the same calls;     *)
(* then DrawSurface::display, and the next frame's surface().              *)
(***************************************************************************)
SurfSize == <<SurfW, SurfH>>

AdmittedWrites(h) ==
    LET RECURSIVE Sum(_)
        Sum(S) == IF S = {} THEN 0
                  ELSE LET q == CHOOSE q \in S : TRUE
                       IN  Len(h[q]) + Sum(S \ {q})
    IN  Sum(DOMAIN h)

SurfInit ==
    /\ InterpIdle
    /\ LineIdle
    /\ pc = "drawing"
    /\ IsFrame(FreshFrame(SurfSize))
    /\ logN = <<>>
    /\ logD = <<>>
    /\ scene = <<>>
    /\ DrawIdle
    /\ MathIdle

\* the outcomes a build can give the call: overflow checks on or off
Builds(size, point) ==
    IF IndexOverflows(size, point) THEN BOOLEAN ELSE {TRUE}

SetPixelDataCall(x, y, d, shader, wraps) ==
    /\ pc = "drawing"
    /\ LET F == WritePixel(Frame, Point(x, y, Payload(d, WriteAttr)), shader, wraps, 0)
       IN  /\ SetFrame(F)
           /\ pc' = IF Panicked(F) THEN "panicked" ELSE "drawing"
    /\ UNCHANGED <<logN, logD, scene, interpVars, lineVars, drawVars, mathVars>>

SetPixelData ==
    /\ AdmittedWrites(hist) < MaxWrites
    /\ \E x \in 0..SurfW, y \in 0..SurfH, d \in WriteDepths, shader \in ShaderRefs :
         \E wraps \in Builds(SurfSize, Point(x, y, INTERPOLATED_ZEROS)) :
            SetPixelDataCall(x, y, d, shader, wraps)

Display ==
    /\ pc = "drawing"
    /\ LET n == NormalSurface_display(normal)
           d == DeferredSurface_display(deferred)
       IN  /\ logN' = logN \o n.calls
           /\ logD' = logD \o d.calls
           /\ shades' = [shades EXCEPT !.nDisplay = @ + n.executed,
                                       !.dDisplay = @ + d.executed]
    /\ pc' = "displayed"
    /\ UNCHANGED <<normal, deferred, hist, filled, outcome, scene, interpVars, lineVars,
                   drawVars, mathVars>>

Surface ==
    /\ pc = "displayed"
    /\ pc' = "drawing"
    /\ SetFrame(FreshFrame(normal.size))
    /\ logN' = <<>>
    /\ logD' = <<>>
    /\ scene' = <<>>
    /\ UNCHANGED <<interpVars, lineVars, drawVars, mathVars>>

SurfNext == SetPixelData \/ Display \/ Surface

SpecSurf == SurfInit /\ [][SurfNext]_vars

(***************************************************************************)
(* SpecTri: frames of one Drawable::triangle call with its vertices at the *)
(* centres of any three pixels of the surface, on both kinds of surface.   *)
(***************************************************************************)
TriSize == <<TriW, TriH>>

\* the depths of the three vertices: inside the range, above it, below it,
\* and across it
TriDepthPatterns ==
    {<<Rat(-1, 2), FInt(0), Rat(1, 2)>>,
     <<Rat(3, 2), FInt(2), Rat(3, 2)>>,
     <<Rat(-3, 2), FInt(-2), Rat(-3, 2)>>,
     <<Rat(-3, 2), FInt(0), Rat(3, 2)>>}

\* what the other channels carry at the three vertices
TriAttrs == <<FInt(0), Rat(3, 10), FInt(1)>>

\* the screen point at the centre of pixel <<x, y>>, as vertex k
CentreOf(size, q, k, depths) ==
    Point(Rat(2 * q[1] + 1, 2 * size[1]), Rat(2 * q[2] + 1, 2 * size[2]),
          Payload(depths[k], TriAttrs[k]))

TriInit ==
    /\ InterpIdle
    /\ LineIdle
    /\ pc = "drawing"
    /\ IsFrame(FreshFrame(TriSize))
    /\ logN = <<>>
    /\ logD = <<>>
    /\ scene = <<>>
    /\ DrawIdle
    /\ MathIdle

TriangleCall(o0, o1, o2, shader, wraps) ==
    /\ pc = "drawing"
    /\ \E F \in {triangle(Frame, o0, o1, o2, shader, wraps, Len(scene) + 1)} :
           /\ SetFrame(F)
           /\ pc' = IF Panicked(F) THEN "panicked" ELSE "drawing"
    /\ scene' = Append(scene, [o0 |-> o0, o1 |-> o1, o2 |-> o2, shader |-> shader])
    /\ UNCHANGED <<logN, logD, interpVars, lineVars, drawVars, mathVars>>

DrawOneTriangle ==
    /\ scene = <<>>
    /\ \E q0 \in Pixels(TriSize), q1 \in Pixels(TriSize), q2 \in Pixels(TriSize),
          depths \in TriDepthPatterns, shader \in LitShaderRefs :
            LET o0 == CentreOf(TriSize, q0, 1, depths)
                o1 == CentreOf(TriSize, q1, 2, depths)
                o2 == CentreOf(TriSize, q2, 3, depths)
            IN  \E wraps \in TriangleBuilds(TriSize, o0, o1, o2) :
                    TriangleCall(o0, o1, o2, shader, wraps)

TriNext == DrawOneTriangle \/ Display \/ Surface

SpecTri == TriInit /\ [][TriNext]_vars

(***************************************************************************)
(* SpecScene: frames of several triangle() calls, as Object::draw makes    *)
(* them for the triangles of a mesh, on both kinds of surface: main's      *)
(* draw() is surface(), the calls, display().                              *)
(***************************************************************************)
\* vertex positions on the screen: a triangle with area, and one pixel
\* column at the left and one at the right
SceneShapes ==
    << <<<<Rat(1, 4), Rat(1, 4)>>, <<Rat(3, 4), Rat(1, 4)>>, <<Rat(1, 4), Rat(3, 4)>>>>,
       <<<<Rat(1, 4), Rat(1, 4)>>, <<Rat(1, 4), Rat(3, 4)>>, <<Rat(1, 4), Rat(1, 4)>>>>,
       <<<<Rat(3, 4), Rat(1, 4)>>, <<Rat(3, 4), Rat(3, 4)>>, <<Rat(3, 4), Rat(1, 4)>>>> >>

\* <<shape, depth of its three vertices>>: every shape at two depths, and
\* the first at the depth a surface starts with and at one out of range
SceneTriangles ==
    ((1..Len(SceneShapes)) \X {FInt(0), Rat(1, 2)})
        \cup ({1} \X {FInt(1), Rat(3, 2)})

SceneVertex(t, k) ==
    Point(SceneShapes[t[1]][k][1], SceneShapes[t[1]][k][2],
          Payload(t[2], TriAttrs[k]))

DrawSceneTriangle ==
    /\ Len(scene) < MaxTriangles
    /\ \E t \in SceneTriangles, shader \in ShaderRefs :
         \E wraps \in TriangleBuilds(TriSize, SceneVertex(t, 1), SceneVertex(t, 2),
                                      SceneVertex(t, 3)) :
            TriangleCall(SceneVertex(t, 1), SceneVertex(t, 2), SceneVertex(t, 3),
                         shader, wraps)

SceneNext == DrawSceneTriangle \/ Display \/ Surface

SpecScene == TriInit /\ [][SceneNext]_vars

(***************************************************************************)
(* SpecDraw: the loader's parse_face builds a Model from `f` lines, and    *)
(* main's draw() renders it frame by frame: surface(), Object::draw (one   *)
(* step per triangle index), display().                                    *)
(***************************************************************************)
P3(x, y, z) == <<FInt(x), FInt(y), FInt(z)>>

Point3D_sub(a, b) == <<FSub(a[1], b[1]), FSub(a[2], b[2]), FSub(a[3], b[3])>>

Point3D_dot(a, b) ==
    FAdd(FAdd(FMul(a[1], b[1]), FMul(a[2], b[2])), FMul(a[3], b[3]))

Point3D_cross(a, b) ==
    <<FSub(FMul(a[2], b[3]), FMul(a[3], b[2])),
      FSub(FMul(a[3], b[1]), FMul(a[1], b[3])),
      FSub(FMul(a[1], b[2]), FMul(a[2], b[1]))>>

Point3D_normalized(a) ==
    LET magnitude == FSqrt(Point3D_dot(a, a))
    IN  <<FDiv(a[1], magnitude), FDiv(a[2], magnitude), FDiv(a[3], magnitude)>>

\* Object::backface: <<is_backface, normal>>
backface(p0, p1, p2) ==
    LET n == Point3D_cross(Point3D_sub(p1, p0), Point3D_sub(p2, p0))
    IN  <<~FLt(Point3D_dot(p0, n), FInt(0)) /\ ~IsNaN(Point3D_dot(p0, n)), n>>

\* Object.world_points, the vertices of the file after the transform: the
\* corners of a square that faces the camera
WorldPoints == <<P3(-1, -1, -2), P3(1, -1, -2), P3(-1, 1, -2), P3(1, 1, -2)>>

\* a Camera with near 1, far 3, a quarter turn of field of view (the tangent
\* of its half is 1) and aspect 1
Camera == [near |-> FInt(1), far |-> FInt(3), th_fov |-> FInt(1), aspect |-> FInt(1)]

\* Mat4x4::new(): the identity
Mat4x4_new ==
    <<<<FInt(1), FInt(0), FInt(0), FInt(0)>>,
      <<FInt(0), FInt(1), FInt(0), FInt(0)>>,
      <<FInt(0), FInt(0), FInt(1), FInt(0)>>,
      <<FInt(0), FInt(0), FInt(0), FInt(1)>>>>

\* Mat4x4 * [f64; 4]: each row's products, summed from 0.0 in order
Mat4x4_mul_vec(self, rhs) ==
    [i \in 1..4 |->
        FAdd(FAdd(FAdd(FAdd(FInt(0), FMul(self[i][1], rhs[1])),
                       FMul(self[i][2], rhs[2])),
                  FMul(self[i][3], rhs[3])),
             FMul(self[i][4], rhs[4]))]

\* Mat4x4 * Mat4x4
Mat4x4_mul(self, rhs) ==
    [y \in 1..4 |-> [x \in 1..4 |->
        FAdd(FAdd(FAdd(FAdd(FInt(0), FMul(self[y][1], rhs[1][x])),
                       FMul(self[y][2], rhs[2][x])),
                  FMul(self[y][3], rhs[3][x])),
             FMul(self[y][4], rhs[4][x]))]]

\* f64::cos and f64::sin of a rotation, which the model counts in half turns:
\* 0 is the angle 0.0 (cos 1.0 and sin 0.0, exactly) and 1 is the angle pi,
\* taken with the real-number values -1 and 0
cos(rotation) == IF rotation = 0 THEN FInt(1) ELSE FInt(-1)

sin(rotation) == FInt(0)

\* the body of Transform::combine with these values of cos and sin
CombineWith(self, ca, sa) ==
    LET scale_mat ==
            <<<<self.scale[1], FInt(0), FInt(0), FInt(0)>>,
              <<FInt(0), self.scale[2], FInt(0), FInt(0)>>,
              <<FInt(0), FInt(0), self.scale[3], FInt(0)>>,
              <<FInt(0), FInt(0), FInt(0), FInt(1)>>>>
        translate_mat ==
            <<<<FInt(1), FInt(0), FInt(0), self.position[1]>>,
              <<FInt(0), FInt(1), FInt(0), self.position[2]>>,
              <<FInt(0), FInt(0), FInt(1), self.position[3]>>,
              <<FInt(0), FInt(0), FInt(0), FInt(1)>>>>
        axis_magnitude ==
            FSqrt(FAdd(FAdd(FMul(self.rotation_axis[1], self.rotation_axis[1]),
                            FMul(self.rotation_axis[2], self.rotation_axis[2])),
                       FMul(self.rotation_axis[3], self.rotation_axis[3])))
        axis == <<FDiv(self.rotation_axis[1], axis_magnitude),
                  FDiv(self.rotation_axis[2], axis_magnitude),
                  FDiv(self.rotation_axis[3], axis_magnitude)>>
        nca == FSub(FInt(1), ca)
        rotate_mat ==
            <<<<FAdd(ca, FMul(FMul(axis[1], axis[1]), nca)),
                FSub(FMul(FMul(axis[1], axis[2]), nca), FMul(axis[3], sa)),
                FAdd(FMul(FMul(axis[1], axis[3]), nca), FMul(axis[2], sa)),
                FInt(0)>>,
              <<FAdd(FMul(FMul(axis[2], axis[1]), nca), FMul(axis[3], sa)),
                FAdd(ca, FMul(FMul(axis[2], axis[2]), nca)),
                FSub(FMul(FMul(axis[2], axis[3]), nca), FMul(axis[1], sa)),
                FInt(0)>>,
              <<FSub(FMul(FMul(axis[3], axis[1]), nca), FMul(axis[2], sa)),
                FAdd(FMul(FMul(axis[3], axis[2]), nca), FMul(axis[1], sa)),
                FAdd(ca, FMul(FMul(axis[3], axis[3]), nca)),
                FInt(0)>>,
              <<FInt(0), FInt(0), FInt(0), FInt(1)>>>>
    IN  Mat4x4_mul(Mat4x4_mul(translate_mat, rotate_mat), scale_mat)

\* Transform::combine with the sine where the cosine belongs, and the cosine
\* where the sine belongs
Transform_combine_SinCos(self) == CombineWith(self, sin(self.rotation), cos(self.rotation))

\* Transform::combine: the value it stores in self.combined
Transform_combine(self) == CombineWith(self, cos(self.rotation), sin(self.rotation))

\* Transform::new
Transform_new(position, scale, rotation, rotation_axis) ==
    LET out == [position |-> position, scale |-> scale, rotation |-> rotation,
                rotation_axis |-> rotation_axis, combined |-> Mat4x4_new]
    IN  [out EXCEPT !.combined = Transform_combine(out)]

\* the matrix of Camera::calculate_matrix with these values of a and b
ProjectionWith(camera, a, b) ==
    <<<<FDiv(FInt(1), FMul(camera.aspect, camera.th_fov)), FInt(0), FInt(0), FInt(0)>>,
      <<FInt(0), FDiv(FInt(1), camera.th_fov), FInt(0), FInt(0)>>,
      <<FInt(0), FInt(0), a, b>>,
      <<FInt(0), FInt(0), FInt(-1), FInt(0)>>>>

\* Camera::calculate_matrix with b = -(far * near) / (far - near)
Camera_calculate_matrix_NoTwo(camera) ==
    ProjectionWith(camera,
        FDiv(FSub(FInt(0), FAdd(camera.far, camera.near)),
             FSub(camera.far, camera.near)),
        FDiv(FSub(FInt(0), FMul(camera.far, camera.near)),
             FSub(camera.far, camera.near)))

\* Camera::calculate_matrix: the value it stores in self.mat; th_fov is the
\* tangent of half the field of view
Camera_calculate_matrix(camera) ==
    ProjectionWith(camera,
        FDiv(FSub(FInt(0), FAdd(camera.far, camera.near)),
             FSub(camera.far, camera.near)),
        FDiv(FSub(FInt(0), FMul(FMul(FInt(2), camera.far), camera.near)),
             FSub(camera.far, camera.near)))

\* projection_matrix * <<x, y, z, 1>>
Camera_project(camera, w) ==
    Mat4x4_mul_vec(Camera_calculate_matrix(camera), <<w[1], w[2], w[3], FInt(1)>>)

\* update_transform for one vertex of the model: the world point and the
\* screen point it pushes
update_transform(transform, camera, vertex) ==
    LET point == <<vertex[1], vertex[2], vertex[3], FInt(1)>>
        world_point == Mat4x4_mul_vec(transform.combined, point)
        transformed == Mat4x4_mul_vec(Camera_calculate_matrix(camera), world_point)
    IN  [done |-> TRUE,
         combined |-> transform.combined,
         world_point |-> <<world_point[1], world_point[2], world_point[3]>>,
         transformed |-> transformed,
         point |-> <<FDiv(FAdd(FDiv(transformed[1], transformed[4]), FInt(1)), FInt(2)),
                     FDiv(FAdd(FDiv(transformed[2], transformed[4]), FInt(1)), FInt(2)),
                     FDiv(transformed[3], transformed[4])>>]

\* Object.points, as update_transform computes them from the world points
Object_points ==
    [i \in 1..Len(WorldPoints) |->
        LET transformed == Camera_project(Camera, WorldPoints[i])
        IN  <<FDiv(FAdd(FDiv(transformed[1], transformed[4]), FInt(1)), FInt(2)),
              FDiv(FAdd(FDiv(transformed[2], transformed[4]), FInt(1)), FInt(2)),
              FDiv(transformed[3], transformed[4])>>]

\* the `vn` and `vt` lines the parser has read
ParserNormals == <<P3(0, 0, 1)>>

ParserUvs == << <<FInt(0), FInt(0)>> >>

\* the face shader update_transform makes for a face: every face is read
\* without material, and the lights are those of main
FaceShaderOf(material_index) == 2

\* an Option: <<>> is None, <<v>> is Some(v)
FacePoint(position, texture, normal_index) ==
    [position |-> position, texture |-> texture, normal |-> normal_index]

\* the closure insert_face of parse_face
insert_face(m, face_point) ==
    [m EXCEPT
        !.indices = Append(@, face_point.position),
        !.uvs = IF face_point.texture # <<>>
                THEN Append(@, ParserUvs[face_point.texture[1] + 1]) ELSE @,
        !.normals = IF face_point.normal # <<>>
                    THEN Append(@, ParserNormals[face_point.normal[1] + 1]) ELSE @]

\* the loop `for v in 2..face.len()` of parse_face, from v on
RECURSIVE FanFrom(_, _, _)
FanFrom(m, face, v) ==
    IF v >= Len(face) THEN m
    ELSE LET m1 == insert_face(m, face[v])
             m2 == insert_face(m1, face[v + 1])
             m3 == insert_face(m2, face[1])
         IN  FanFrom([m3 EXCEPT !.material_indices = Append(@, <<>>)], face, v + 1)

\* parse_face with the material index pushed once for the `f` line
parse_face_MaterialPerFace(m, face) ==
    IF Len(face) < 3 THEN m
    ELSE [FanFrom(m, face, 2) EXCEPT
            !.material_indices = Append(m.material_indices, <<>>)]

\* parse_face on the corners of one `f` line; the model is left alone when
\* it answers GenericError
parse_face(m, face) ==
    IF Len(face) < 3 THEN m ELSE FanFrom(m, face, 2)

\* the corners of the `f` lines read: positions as written in the file,
\* from 1; two windings of a triangle, one with a corner twice, and a quad
FacePositions == {<<1, 2, 3>>, <<1, 3, 2>>, <<1, 1, 2>>, <<2, 4, 3>>, <<1, 2, 4, 3>>}

\* `f a b c`, `f a/1 b/1 c/1`, `f a//1 b//1 c//1` and `f a/1/1 b/1/1 c/1/1`
FaceOf(positions, with_uvs, with_normals) ==
    [k \in 1..Len(positions) |->
        FacePoint(positions[k] - 1,
                  IF with_uvs THEN <<0>> ELSE <<>>,
                  IF with_normals THEN <<0>> ELSE <<>>)]

\* the three corners draw_triangle hands to triangle(), from point_at
DrawPoints(m, start_index, face_normal) ==
    [k \in 1..3 |->
        LET meta_index == start_index * 3 + (k - 1)
            index == m.indices[meta_index + 1]
            n == IF m.normals # <<>> THEN m.normals[meta_index + 1]
                 ELSE Point3D_normalized(face_normal)
            uv == IF m.uvs # <<>> THEN m.uvs[meta_index + 1]
                  ELSE <<FInt(0), FInt(0)>>
            point == Object_points[index + 1]
            world_point == WorldPoints[index + 1]
        IN  Point(point[1], point[2],
                  <<point[3], world_point[1], world_point[2], world_point[3],
                    n[1], n[2], n[3], uv[1], uv[2]>>)]

\* self.world_points[index_at(point_index)] is past the end
WorldPointPanics(m, start_index) ==
    \E k \in 0..2 : m.indices[start_index * 3 + k + 1] >= Len(WorldPoints)

\* self.face_shaders[start_index], self.normals[meta_index] or
\* self.model.uvs[meta_index] is past the end
CornerLookupPanics(m, start_index) ==
    \/ start_index >= Len(m.material_indices)
    \/ m.normals # <<>> /\ start_index * 3 + 2 >= Len(m.normals)
    \/ m.uvs # <<>> /\ start_index * 3 + 2 >= Len(m.uvs)

\* Object::draw_triangle(start_index) on both surfaces:
\* [F: the surfaces after it, called: whether it called triangle()]
draw_triangle(F, m, start_index, wraps) ==
    LET p0 == WorldPoints[m.indices[start_index * 3 + 1] + 1]
        p1 == WorldPoints[m.indices[start_index * 3 + 2] + 1]
        p2 == WorldPoints[m.indices[start_index * 3 + 3] + 1]
        b == backface(p0, p1, p2)
        o == DrawPoints(m, start_index, b[2])
    IN  IF WorldPointPanics(m, start_index)
        THEN [F |-> [F EXCEPT !.outcome = <<"panicked", "panicked">>],
              called |-> FALSE]
        ELSE IF b[1] THEN [F |-> F, called |-> FALSE]
        ELSE IF CornerLookupPanics(m, start_index)
        THEN [F |-> [F EXCEPT !.outcome = <<"panicked", "panicked">>],
              called |-> FALSE]
        ELSE [F |-> triangle(F, o[1], o[2], o[3],
                             FaceShaderOf(m.material_indices[start_index + 1]),
                             wraps, start_index + 1),
              called |-> TRUE]

DrawInit ==
    /\ InterpIdle
    /\ LineIdle
    /\ pc = "loading"
    /\ IsFrame(FreshFrame(TriSize))
    /\ logN = <<>>
    /\ logD = <<>>
    /\ scene = <<>>
    /\ DrawIdle
    /\ MathIdle

\* the loader reads one more `f` line
ParseFace ==
    /\ pc = "loading"
    /\ Len(model.material_indices) < MaxMeshTriangles
    /\ \E positions \in FacePositions, with_uvs \in BOOLEAN, with_normals \in BOOLEAN :
         model' = parse_face(model, FaceOf(positions, with_uvs, with_normals))
    /\ UNCHANGED <<drawT, drawCalls, surfVars, interpVars, lineVars, mathVars>>

\* main's draw(): drawable.surface(), before Object::draw
DrawSurface ==
    /\ pc \in {"loading", "displayed"}
    /\ model.indices # <<>>
    /\ pc' = "drawing"
    /\ SetFrame(FreshFrame(TriSize))
    /\ logN' = <<>>
    /\ logD' = <<>>
    /\ scene' = <<>>
    /\ drawT' = 0
    /\ drawCalls' = <<>>
    /\ UNCHANGED <<model, interpVars, lineVars, mathVars>>

\* one turn of the loop of Object::draw
DrawTriangle ==
    /\ pc = "drawing"
    /\ drawT < Len(model.indices) \div 3
    /\ \E wraps \in BOOLEAN :
        \E r \in {draw_triangle(Frame, model, drawT, wraps)} :
            /\ SetFrame(r.F)
            /\ pc' = IF Panicked(r.F) THEN "panicked" ELSE "drawing"
            /\ drawT' = IF Panicked(r.F) THEN drawT ELSE drawT + 1
            /\ drawCalls' = IF r.called THEN Append(drawCalls, drawT) ELSE drawCalls
    /\ UNCHANGED <<logN, logD, scene, model, interpVars, lineVars, mathVars>>

\* surface.display(), after Object::draw has returned
DrawDisplay ==
    /\ drawT = Len(model.indices) \div 3
    /\ Display

DrawNext == ParseFace \/ DrawSurface \/ DrawTriangle \/ DrawDisplay

SpecDraw == DrawInit /\ [][DrawNext]_vars

(***************************************************************************)
(* SpecTex: one Texture::pixel(position) on a Texture of TexW x TexH       *)
(* texels, as color_shader::execute calls it with the UV channels.         *)
(***************************************************************************)
\* `value as i32` of an f64: towards zero, saturating; NaN gives 0
FAsI32(a) ==
    IF IsNaN(a) THEN 0
    ELSE LET t == IF a[1] < 0 THEN -((-a[1]) \div a[2]) ELSE a[1] \div a[2]
         IN  IF t > 2147483647 THEN 2147483647 ELSE t

i32_max(a, b) == IF b > a THEN b ELSE a

\* Texture::to_local
Texture_to_local(size, position) ==
    <<usize_min(i32_max(FAsI32(FMul(position[1], FInt(size[1]))), 0), size[1]),
      usize_min(i32_max(FAsI32(FMul(position[2], FInt(size[2]))), 0), size[2])>>

\* Texture::pixel_local: the index it reads self.colors at.  The usize
\* subtraction size.1 - position.y - 1 below zero panics in a build that
\* checks overflow and wraps otherwise, and the index is then taken modulo
\* 2^64 (a negative number here stands for 2^64 + itself); an index past the
\* end of colors panics in every build.
Texture_pixel_local(size, position, wraps) ==
    LET row == size[2] - position[2] - 1
        index == row * size[1] + position[1]
    IN  IF row < 0 /\ ~wraps
        THEN [outcome |-> "panicked", x |-> position[1], y |-> position[2],
              index |-> 0]
        ELSE IF index < 0 \/ index >= size[1] * size[2]
        THEN [outcome |-> "panicked", x |-> position[1], y |-> position[2],
              index |-> 0]
        ELSE [outcome |-> IF row < 0 THEN "wrapped" ELSE "returned",
              x |-> position[1], y |-> position[2], index |-> index]

\* Texture::pixel
Texture_pixel(size, position, wraps) ==
    Texture_pixel_local(size, Texture_to_local(size, position), wraps)

TexSize == <<TexW, TexH>>

\* u and v: below 0, 0, inside, exactly 1, above 1, and no number
UvVals == {Rat(-1, 2), FInt(0), Rat(1, 4), Rat(1, 2), Rat(3, 4), Rat(99, 100),
           FInt(1), Rat(3, 2), NaN}

TexInit ==
    /\ InterpIdle
    /\ LineIdle
    /\ SurfIdle
    /\ DrawIdle
    /\ TfIdle
    /\ RestIdle
    /\ texResult = NoLookup
    /\ \E u \in UvVals, v \in UvVals : texPosition = <<u, v>>

TexturePixel ==
    /\ texResult.outcome = "none"
    /\ \E wraps \in BOOLEAN :
         texResult' = Texture_pixel(TexSize, texPosition, wraps)
    /\ UNCHANGED <<texPosition, tfTransform, tfCamera, tfVertex, tfPoints,
                   interpVars, lineVars, surfVars, drawVars, restVars>>

SpecTex == TexInit /\ [][TexturePixel]_vars

\* the texel a clamped lookup reads: column and row in range, rows from the
\* top of the image
ClampedIndex(size, position) ==
    LET x == usize_min(i32_max(FAsI32(FMul(position[1], FInt(size[1]))), 0), size[1] - 1)
        y == usize_min(i32_max(FAsI32(FMul(position[2], FInt(size[2]))), 0), size[2] - 1)
    IN  (size[2] - y - 1) * size[1] + x

(***************************************************************************)
(* C11: for every UV, Texture::pixel returns normally, without overflow,   *)
(* and reads the texel of a column in [0, width-1] and a row in            *)
(* [0, height-1] (rows flipped), the UV clamped into the texture.          *)
(***************************************************************************)
C11_TextureLookupClamped ==
    texResult.outcome # "none" =>
        /\ texResult.outcome = "returned"
        /\ texResult.x \in 0..(TexW - 1)
        /\ texResult.y \in 0..(TexH - 1)
        /\ texResult.index = ClampedIndex(TexSize, texPosition)

\* what does hold: a UV below 1 on both axes (or no number) is clamped
C11_ClampedBelowOne ==
    (/\ texResult.outcome # "none"
     /\ \A k \in 1..2 : IsNaN(texPosition[k]) \/ FLt(texPosition[k], FInt(1))) =>
        /\ texResult.outcome = "returned"
        /\ texResult.index = ClampedIndex(TexSize, texPosition)

(***************************************************************************)
(* SpecTransform: Object::new on a model of one vertex: a Transform and a  *)
(* Camera are built and update_transform computes the vertex's world       *)
(* point and screen point.                                                 *)
(***************************************************************************)
\* positions, scales, rotations and rotation axes handed to Transform::new;
\* the last axis is the zero axis
TfPositions == {P3(0, 0, 0), P3(1, 0, -3)}

TfScales == {P3(1, 1, 1), <<FInt(2), FInt(1), Rat(1, 2)>>}

TfRotations == {0, 1}

TfAxes == {P3(1, 0, 0), P3(0, -2, 0), P3(3, 4, 0), P3(2, 3, 6), P3(0, 0, 0)}

\* the cameras handed to Camera::new, all with 0 < near < far
TfCameras ==
    {[near |-> c[1][1], far |-> c[1][2], th_fov |-> FInt(1), aspect |-> c[2]] :
        c \in {<<Rat(1, 2), FInt(1)>>, <<FInt(1), FInt(3)>>, <<FInt(2), FInt(100)>>}
              \X {FInt(1), FInt(2)}}

\* the vertices of the model: the centre of the camera's near plane, the
\* centre of its far plane and two points off the axis
TfVertices(camera) ==
    {<<FInt(0), FInt(0), FSub(FInt(0), camera.near)>>,
     <<FInt(0), FInt(0), FSub(FInt(0), camera.far)>>,
     <<FInt(1), FInt(1), FSub(FInt(0), camera.near)>>,
     <<FInt(-1), FInt(2), FInt(-5)>>}

TfInit ==
    /\ InterpIdle
    /\ LineIdle
    /\ SurfIdle
    /\ DrawIdle
    /\ TexIdle
    /\ RestIdle
    /\ \E position \in TfPositions, scale \in TfScales,
          rotation \in TfRotations, rotation_axis \in TfAxes :
         tfTransform = Transform_new(position, scale, rotation, rotation_axis)
    /\ tfCamera \in TfCameras
    /\ tfVertex \in TfVertices(tfCamera)
    /\ tfPoints = NoPoints

UpdateTransform ==
    /\ ~tfPoints.done
    /\ tfPoints' = update_transform(tfTransform, tfCamera, tfVertex)
    /\ UNCHANGED <<tfTransform, tfCamera, tfVertex, texPosition, texResult,
                   interpVars, lineVars, surfVars, drawVars, restVars>>

SpecTransform == TfInit /\ [][UpdateTransform]_vars

\* the world point is the centre of the camera's near plane
AtNearCentre ==
    /\ tfPoints.done
    /\ tfPoints.world_point = <<FInt(0), FInt(0), FSub(FInt(0), tfCamera.near)>>

(***************************************************************************)
(* C12: for a Camera with 0 < near < far, the projection matrix times the  *)
(* near-plane centre (0, 0, -near, 1) has clip z = -near and w = near, and *)
(* the division by w in update_transform gives the depth z = -1.           *)
(***************************************************************************)
C12_NearPlaneDepth ==
    (/\ AtNearCentre
     /\ FLt(FInt(0), tfCamera.near)
     /\ FLt(tfCamera.near, tfCamera.far)) =>
        /\ tfPoints.transformed[3] = FSub(FInt(0), tfCamera.near)
        /\ tfPoints.transformed[4] = tfCamera.near
        /\ tfPoints.point[3] = FInt(-1)

C12_Witness ==
    /\ AtNearCentre
    /\ tfCamera.near = FInt(2)
    /\ tfCamera.far = FInt(100)
    /\ tfPoints.point[3] = FInt(-1)

\* the Transform was built with position (0,0,0), scale (1,1,1), angle 0
\* and a non-zero axis
IdentityArguments ==
    /\ tfTransform.position = P3(0, 0, 0)
    /\ tfTransform.scale = P3(1, 1, 1)
    /\ tfTransform.rotation = 0
    /\ tfTransform.rotation_axis # P3(0, 0, 0)

(***************************************************************************)
(* C13: a Transform built with position (0,0,0), scale (1,1,1), rotation   *)
(* angle 0 and a non-zero rotation axis has the 4x4 identity as combined   *)
(* matrix, and the world point update_transform computes with it is the    *)
(* vertex itself.                                                          *)
(***************************************************************************)
C13_IdentityTransform ==
    IdentityArguments =>
        /\ tfTransform.combined = Mat4x4_new
        /\ tfPoints.done => tfPoints.world_point = tfVertex

C13_Witness ==
    /\ IdentityArguments
    /\ tfTransform.rotation_axis = P3(2, 3, 6)
    /\ tfPoints.done
    /\ tfVertex = <<FInt(-1), FInt(2), FInt(-5)>>
    /\ tfPoints.world_point = tfVertex

(***************************************************************************)
(* What the claims say of a pixel, from the writes made to it.             *)
(***************************************************************************)
\* the place of pixel <<x, y>> in a buffer of a surface of this size
CellOf(size, q) == (size[2] - 1 - q[2]) * size[1] + q[1] + 1

DepthOf(w) == w.interpolated[DepthChannel]

\* the first write of smallest depth among the writes ws (not empty)
RECURSIVE Closest(_)
Closest(ws) ==
    IF Len(ws) = 1 THEN ws[1]
    ELSE LET best == Closest(SubSeq(ws, 1, Len(ws) - 1))
         IN  IF FLt(DepthOf(ws[Len(ws)]), DepthOf(best)) THEN ws[Len(ws)]
             ELSE best

\* pixel q of both surfaces holds the data of write w
HoldsWrite(q, w) ==
    LET i == CellOf(normal.size, q)
    IN  /\ normal.depths[i] = DepthOf(w)
        /\ normal.colors[i] = execute(w)
        /\ deferred.pixels[i].shader = w.shader
        /\ deferred.pixels[i].interpolated = w.interpolated

\* pixel q of both surfaces is as surface() made it
HoldsBackground(q) ==
    LET i == CellOf(normal.size, q)
    IN  /\ normal.depths[i] = FInt(1)
        /\ normal.colors[i] = Color_new(FInt(0), FInt(0), FInt(0))
        /\ deferred.pixels[i].shader = None
        /\ deferred.pixels[i].interpolated[DepthChannel] = FInt(1)

(***************************************************************************)
(* C1, as stated: after two writes with depths in [-1, 1] to a pixel, in   *)
(* either order, the pixel holds the data of the write of smaller depth,   *)
(* and of the first write when the depths are equal.                       *)
(***************************************************************************)
C1_DepthTestAsStated ==
    \A q \in DOMAIN hist :
        (pc # "panicked" /\ Len(hist[q]) = 2) => HoldsWrite(q, Closest(hist[q]))

(***************************************************************************)
(* C1, amended: the same when the smaller depth is below 1.0; when both    *)
(* depths are 1.0, the depth the surface starts with, neither write is     *)
(* stored and the pixel keeps the background.                              *)
(***************************************************************************)
C1_DepthTest ==
    \A q \in DOMAIN hist :
        (pc # "panicked" /\ Len(hist[q]) = 2) =>
            IF FLt(DepthOf(Closest(hist[q])), FInt(1))
            THEN HoldsWrite(q, Closest(hist[q]))
            ELSE HoldsBackground(q)

C1_Witness ==
    /\ pc = "drawing"
    /\ \E q \in DOMAIN hist :
        /\ Len(hist[q]) = 2
        /\ FLt(DepthOf(hist[q][2]), DepthOf(hist[q][1]))
        /\ hist[q][2].shader # hist[q][1].shader
        /\ HoldsWrite(q, hist[q][2])

(***************************************************************************)
(* C5: a set_pixel_data whose coordinate is out of bounds (x >= width or   *)
(* y >= height) returns normally, without panic or arithmetic overflow,    *)
(* and leaves the depth, colour and pixel-record buffers unchanged.        *)
(***************************************************************************)
C5_OutOfBoundsDiscarded ==
    [][\A x \in 0..SurfW, y \in 0..SurfH, d \in WriteDepths,
          shader \in ShaderRefs, wraps \in BOOLEAN :
            ((x >= SurfW \/ y >= SurfH) /\ SetPixelDataCall(x, y, d, shader, wraps))
                => /\ pc' = "drawing"
                   /\ outcome' = <<"returned", "returned">>
                   /\ normal' = normal
                   /\ deferred' = deferred]_vars

Black == Color_new(FInt(0), FInt(0), FInt(0))

\* the colour the sink gets for pixel q after the writes made to it
ColourAfterWrites(q) ==
    IF hist[q] # <<>> /\ FLt(DepthOf(Closest(hist[q])), FInt(1))
    THEN execute(Closest(hist[q]))
    ELSE Black

\* the number of writes of ws that are below every write before them and
\* below the depth best
RECURSIVE Wins(_, _)
Wins(ws, best) ==
    IF ws = <<>> THEN 0
    ELSE IF FLt(DepthOf(Head(ws)), best)
    THEN 1 + Wins(Tail(ws), DepthOf(Head(ws)))
    ELSE Wins(Tail(ws), best)

RECURSIVE WinsOver(_)
WinsOver(S) ==
    IF S = {} THEN 0
    ELSE LET q == CHOOSE q \in S : TRUE
         IN  Wins(hist[q], FInt(1)) + WinsOver(S \ {q})

\* no pixel has admitted writes of two triangle() calls
NoOverlap ==
    \A q \in DOMAIN hist :
        \A i \in 1..Len(hist[q]), j \in 1..Len(hist[q]) :
            hist[q][i].call = hist[q][j].call

(***************************************************************************)
(* C2: when the frame is displayed after triangle() calls of which no two  *)
(* wrote the same pixel, the colour buffer the NormalSurface hands to its  *)
(* sink and the one the DeferredSurface hands to its sink are equal,       *)
(* pixel for pixel, background included.                                   *)
(***************************************************************************)
C2_ImmediateDeferredEqual ==
    (pc = "displayed" /\ NoOverlap) =>
        /\ Len(logN[2].colors) = Len(logD[2].colors)
        /\ \A i \in 1..Len(logN[2].colors) : logN[2].colors[i] = logD[2].colors[i]

\* two triangles that wrote different pixels, and a pixel none wrote
C2_Witness ==
    /\ pc = "displayed"
    /\ NoOverlap
    /\ \E q1 \in DOMAIN hist, q2 \in DOMAIN hist, q3 \in DOMAIN hist :
        /\ hist[q1] # <<>> /\ hist[q1][1].call = 1
        /\ hist[q2] # <<>> /\ hist[q2][1].call = 2
        /\ hist[q3] = <<>>
        /\ logN[2].colors[CellOf(normal.size, q1)] # Black
        /\ logN[2].colors[CellOf(normal.size, q2)] # Black
        /\ logN[2].colors[CellOf(normal.size, q2)]
              # logN[2].colors[CellOf(normal.size, q1)]

SinkCallsOfFrame(log) ==
    LET size == normal.size
    IN  /\ Len(log) = 2
        /\ log[1] = SinkPrepare(size)
        /\ log[2].op = "display"
        /\ log[2].size = size
        /\ Len(log[2].colors) = size[1] * size[2]
        /\ \A q \in Pixels(size) :
              log[2].colors[CellOf(size, q)] = ColourAfterWrites(q)

(***************************************************************************)
(* C8: in every frame, on either surface, the sink gets no call before     *)
(* display, and display makes exactly prepare(size) and then               *)
(* display(size, colors), where colors has width*height elements and       *)
(* holds the colour of pixel <<x, y>> at (height - 1 - y) * width + x.     *)
(***************************************************************************)
C8_SinkProtocol ==
    /\ pc # "displayed" => (logN = <<>> /\ logD = <<>>)
    /\ pc = "displayed" => (SinkCallsOfFrame(logN) /\ SinkCallsOfFrame(logD))

C8_Witness ==
    /\ pc = "displayed"
    /\ Len(logN) = 2
    /\ \E q \in Pixels(normal.size), r \in Pixels(normal.size) :
        /\ q[2] # r[2]
        /\ logN[2].colors[CellOf(normal.size, q)] # Black
        /\ logD[2].colors[CellOf(normal.size, r)] = Black

(***************************************************************************)
(* C9: on the DeferredSurface no set_pixel_data evaluates                  *)
(* color_shader::execute, and display evaluates it width*height times,     *)
(* whatever writes came before.                                            *)
(***************************************************************************)
C9_DeferredShadesAtDisplay ==
    /\ shades.dWrite = 0
    /\ shades.dDisplay =
          IF pc = "displayed" THEN normal.size[1] * normal.size[2] ELSE 0

\* displayed after a pixel was written twice and another never
C9_Witness ==
    /\ pc = "displayed"
    /\ shades.dDisplay = normal.size[1] * normal.size[2]
    /\ \E q \in DOMAIN hist, r \in DOMAIN hist :
          Len(hist[q]) = 2 /\ hist[r] = <<>>

(***************************************************************************)
(* C10: on the NormalSurface the number of evaluations of execute in a     *)
(* frame is the number of writes that passed the range checks and were     *)
(* strictly below the depth stored at their pixel (a rejected or losing    *)
(* write evaluates nothing), and display evaluates nothing.                *)
(***************************************************************************)
C10_ImmediateShadesPerWin ==
    /\ shades.nWrite = WinsOver(DOMAIN hist)
    /\ shades.nDisplay = 0

\* more evaluations than pixels
C10_Witness ==
    /\ pc = "displayed"
    /\ shades.nWrite > normal.size[1] * normal.size[2]

MeshTriangles == 0..(Len(model.indices) \div 3 - 1)

IsBackface(t) ==
    backface(WorldPoints[model.indices[t * 3 + 1] + 1],
             WorldPoints[model.indices[t * 3 + 2] + 1],
             WorldPoints[model.indices[t * 3 + 3] + 1])[1]

TimesDrawn(t) == Cardinality({i \in 1..Len(drawCalls) : drawCalls[i] = t})

WritesOf(t) ==
    {<<q, i>> \in (DOMAIN hist) \X (1..MaxMeshTriangles + 1) :
        i <= Len(hist[q]) /\ hist[q][i].call = t + 1}

C7_CulledNotDrawn ==
    \A t \in MeshTriangles :
        IsBackface(t) => (TimesDrawn(t) = 0 /\ WritesOf(t) = {})

VertexDepths(t) ==
    {t.o0.interpolated[DepthChannel], t.o1.interpolated[DepthChannel],
     t.o2.interpolated[DepthChannel]}

OutsideDepthRange(t) ==
    \/ \A d \in VertexDepths(t) : FLt(d, FInt(-1))
    \/ \A d \in VertexDepths(t) : FGt(d, FInt(1))

(***************************************************************************)
(* C6: a triangle() call on a fresh surface whose three vertices all have  *)
(* a depth above 1 or all have a depth below -1, and whose pixels are in   *)
(* bounds, leaves every depth 1.0, every colour black and every pixel      *)
(* record without a shader reference, and the buffers handed to the sink   *)
(* by display are the background.                                          *)
(***************************************************************************)
C6_OutsideDepthRangeUnmodified ==
    (Len(scene) = 1 /\ OutsideDepthRange(scene[1])) =>
        /\ pc # "panicked"
        /\ normal = NormalDrawable_surface(normal.size)
        /\ deferred = DeferredDrawable_surface(normal.size)
        /\ pc = "displayed" =>
              /\ logN[2].colors = [i \in 1..(normal.size[1] * normal.size[2]) |-> Black]
              /\ logD[2].colors = [i \in 1..(normal.size[1] * normal.size[2]) |-> Black]

\* a triangle with area, all depths below the range, drawn and displayed
C6_Witness ==
    /\ pc = "displayed"
    /\ Len(scene) = 1
    /\ \A d \in VertexDepths(scene[1]) : FLt(d, FInt(-1))
    /\ LET p0 == to_local(normal.size, scene[1].o0)
           p1 == to_local(normal.size, scene[1].o1)
           p2 == to_local(normal.size, scene[1].o2)
       IN  (p1.x - p0.x) * (p2.y - p0.y) # (p2.x - p0.x) * (p1.y - p0.y)

(***************************************************************************)
(* SpecQuad: frames in which a quad whose corners are the corners of the   *)
(* screen is drawn as two triangle() calls at one depth with one shader,   *)
(* on a surface of QuadW x QuadH pixels of both kinds.                     *)
(***************************************************************************)
QuadSize == <<QuadW, QuadH>>

\* the corners of the screen, counter-clockwise
QuadCorners == <<<<FInt(0), FInt(0)>>, <<FInt(1), FInt(0)>>,
                 <<FInt(1), FInt(1)>>, <<FInt(0), FInt(1)>>>>

\* the two ways to cut the quad in two triangles, as corner numbers
QuadSplits == << <<<<1, 2, 3>>, <<1, 3, 4>>>>, <<<<2, 3, 4>>, <<2, 4, 1>>>> >>

QuadDepths == {FInt(0), Rat(1, 2)}

\* what the channels other than the depth carry at corner c: the same at
\* every corner (FALSE) or a value of the corner (TRUE)
QuadAttr(varying, c) == IF varying THEN Rat(c, 4) ELSE Rat(3, 10)

QuadVertex(c, depth, varying) ==
    Point(QuadCorners[c][1], QuadCorners[c][2], Payload(depth, QuadAttr(varying, c)))

\* the triangle() call for half h of split s
QuadTriangle(s, h, depth, varying, shader) ==
    [o0 |-> QuadVertex(QuadSplits[s][h][1], depth, varying),
     o1 |-> QuadVertex(QuadSplits[s][h][2], depth, varying),
     o2 |-> QuadVertex(QuadSplits[s][h][3], depth, varying),
     shader |-> shader]

QuadInit ==
    /\ InterpIdle
    /\ LineIdle
    /\ pc = "drawing"
    /\ IsFrame(FreshFrame(QuadSize))
    /\ logN = <<>>
    /\ logD = <<>>
    /\ scene = <<>>
    /\ DrawIdle
    /\ MathIdle

\* the next triangle of the quad: either half first, then the other half
DrawQuadTriangle ==
    /\ Len(scene) < 2
    /\ \E s \in 1..Len(QuadSplits), h \in 1..2, depth \in QuadDepths,
          varying \in BOOLEAN, shader \in ShaderRefs :
         LET t == QuadTriangle(s, h, depth, varying, shader)
         IN  /\ scene # <<>> => scene[1] = QuadTriangle(s, 3 - h, depth, varying, shader)
             /\ \E wraps \in TriangleBuilds(QuadSize, t.o0, t.o1, t.o2) :
                    TriangleCall(t.o0, t.o1, t.o2, t.shader, wraps)

QuadNext == DrawQuadTriangle \/ Display \/ Surface

SpecQuad == QuadInit /\ [][QuadNext]_vars

\* the frame of the whole quad has been displayed
QuadDisplayed == pc = "displayed" /\ Len(scene) = 2

\* every pixel of the surface got a write that it stored
AllPixelsWritten ==
    \A q \in Pixels(normal.size) :
        /\ hist[q] # <<>>
        /\ ~HoldsBackground(q)

\* both sinks got one colour for all pixels
OneColour ==
    /\ \A i \in 1..Len(logN[2].colors) : logN[2].colors[i] = logN[2].colors[1]
    /\ \A i \in 1..Len(logD[2].colors) : logD[2].colors[i] = logD[2].colors[1]

(***************************************************************************)
(* C14: drawing the two triangles of a quad whose corners are the screen   *)
(* corners (0,0), (1,0), (1,1), (0,1), at one depth in range, and          *)
(* displaying the frame ends without panic, with every pixel of the        *)
(* surface written and all pixels of one colour.                           *)
(***************************************************************************)
C14_FullViewportQuad ==
    /\ pc # "panicked"
    /\ QuadDisplayed => (AllPixelsWritten /\ OneColour)

\* what holds of the build without overflow checks: the frame is displayed,
\* every pixel is written, and the colours are one when the shader has no
\* lights or the payload is the same at every corner
C14_WrappingBuild ==
    QuadDisplayed =>
        /\ AllPixelsWritten
        /\ (FaceShaders[scene[1].shader].lights = <<>>
              \/ scene[1].o0.interpolated = scene[1].o2.interpolated) => OneColour

C14_WrappingBuildWitness ==
    /\ QuadDisplayed
    /\ FaceShaders[scene[1].shader].lights # <<>>
    /\ AllPixelsWritten
    /\ OneColour

(***************************************************************************)
(* C15: after any sequence of `f` lines (triangles, and polygons cut into  *)
(* a fan of n-2 triangles) model.indices has 3 entries for every entry of  *)
(* model.material_indices, so every triangle index Object::draw visits     *)
(* has a face shader.                                                      *)
(***************************************************************************)
C15_IndicesAlignedWithMaterials ==
    /\ Len(model.indices) = 3 * Len(model.material_indices)
    /\ \A t \in 0..(Len(model.indices) \div 3 - 1) : t < Len(model.material_indices)

\* a triangle and a polygon of four corners have been read, and the draw
\* loop has visited all three triangles
C15_Witness ==
    /\ Len(model.indices) = 9
    /\ Len(model.material_indices) = 3
    /\ pc = "drawing"
    /\ drawT = 3

(***************************************************************************)
(* C16: model.normals is empty or has one entry for every entry of         *)
(* model.indices, and so has model.uvs, also when some `f` lines give      *)
(* normal or UV indices and others do not; so the lookups                  *)
(* self.normals[meta_index] and self.model.uvs[meta_index] of              *)
(* draw_triangle are in range.                                             *)
(***************************************************************************)
C16_NormalsAndUvsAligned ==
    /\ model.normals = <<>> \/ Len(model.normals) = Len(model.indices)
    /\ model.uvs = <<>> \/ Len(model.uvs) = Len(model.indices)

\* what holds: neither array is longer than the index buffer
C16_AtMostOnePerIndex ==
    /\ Len(model.normals) <= Len(model.indices)
    /\ Len(model.uvs) <= Len(model.indices)

(***************************************************************************)
(* What the claims say of one triangle() call, from its arguments.         *)
(***************************************************************************)
\* the local points of call c of the frame
LocalPoints(c) ==
    <<to_local(normal.size, scene[c].o0), to_local(normal.size, scene[c].o1),
      to_local(normal.size, scene[c].o2)>>

\* the pixels the three edge walks of the call visit, in order
EdgePixels(c) ==
    LET p == LocalPoints(c)
    IN  line_points(p[1], p[2]) \o line_points(p[2], p[3]) \o line_points(p[3], p[1])

\* the first pixel of `visited` at <<x, y>>
FirstAt(visited, x, y) ==
    LET at == {i \in 1..Len(visited) : visited[i].x = x /\ visited[i].y = y}
    IN  visited[CHOOSE i \in at : \A j \in at : i <= j]

\* the limits of row y as the claim gives them: the first visited pixel of
\* smallest x and the first visited pixel of largest x
RowExtremes(visited, y) ==
    LET xs == {visited[i].x : i \in {j \in 1..Len(visited) : visited[j].y = y}}
        lo == CHOOSE x \in xs : \A z \in xs : x <= z
        hi == CHOOSE x \in xs : \A z \in xs : x >= z
    IN  [lower |-> PointDesc(lo, FirstAt(visited, lo, y).interpolated),
         upper |-> PointDesc(hi, FirstAt(visited, hi, y).interpolated)]

\* points_slice of call c after the three walks
SpansOf(c) ==
    LET p == LocalPoints(c) IN TriangleSpans(p[1], p[2], p[3])

(***************************************************************************)
(* C17: after the three edge walks of triangle() every row y in            *)
(* [min_y, max_y] has as lower the edge pixel of smallest x visited on the *)
(* row and as upper the edge pixel of largest x visited on the row, each   *)
(* with its payload, the first visited pixel winning ties; no row keeps a  *)
(* sentinel limit or the all-zero sentinel payload.                        *)
(***************************************************************************)
C17_SpansAreRowExtremes ==
    scene # <<>> =>
        LET t == SpansOf(1)
        IN  /\ t.ok
            /\ \A i \in 1..Len(t.spans) :
                  t.spans[i] = RowExtremes(EdgePixels(1), t.min_y + i - 1)

\* what holds: the same on every row whose largest x is above 0; a row
\* whose pixels are all in column 0 has the lower limit as claimed and
\* keeps the sentinel as upper limit
C17_SpansExceptColumnZero ==
    scene # <<>> =>
        LET t == SpansOf(1)
        IN  /\ t.ok
            /\ \A i \in 1..Len(t.spans) :
                 LET e == RowExtremes(EdgePixels(1), t.min_y + i - 1)
                 IN  /\ t.spans[i].lower = e.lower
                     /\ t.spans[i].upper =
                            IF e.upper.limit > 0 THEN e.upper
                            ELSE PointDesc(0, INTERPOLATED_ZEROS)

\* the pixels of `filled` that call c handed to set_pixel_data, in order
FilledBy(c) ==
    LET idx == {i \in 1..Len(filled) : filled[i].call = c}
        RECURSIVE Pick(_)
        Pick(i) == IF i > Len(filled) THEN <<>>
                   ELSE IF i \in idx THEN <<filled[i]>> \o Pick(i + 1)
                   ELSE Pick(i + 1)
    IN  Pick(1)

\* row by row from row i of the spans on, the pixels from lower.x to
\* upper.x in increasing x
RECURSIVE SpanPixels(_, _, _, _, _)
SpanPixels(spans, min_y, i, shader, c) ==
    IF i > Len(spans) THEN <<>>
    ELSE LET lo == spans[i].lower.limit
             hi == spans[i].upper.limit
         IN  [k \in 1..(hi - lo + 1) |->
                 [x |-> lo + k - 1, y |-> min_y + i - 1, shader |-> shader, call |-> c]]
             \o SpanPixels(spans, min_y, i + 1, shader, c)

\* call c made exactly the set_pixel_data calls of its spans
FillsItsSpans(c) ==
    LET t == SpansOf(c)
    IN  /\ t.ok
        /\ FilledBy(c) = SpanPixels(t.spans, t.min_y, 1, scene[c].shader, c)

(***************************************************************************)
(* C18: for each row y in [min_y, max_y] of a triangle() call,             *)
(* set_pixel_data is called for exactly the pixels (x, y) with             *)
(* lower.x <= x <= upper.x, each once and in increasing x, with the        *)
(* shader of the call; the pixels of the edge walks are not written.       *)
(***************************************************************************)
C18_FillPass == \A c \in 1..Len(scene) : FillsItsSpans(c)

\* what holds: the same of every call that did not panic
C18_FillPassOfReturnedCalls ==
    \A c \in 1..Len(scene) : (c < Len(scene) \/ pc # "panicked") => FillsItsSpans(c)

C18_ReturnedWitness ==
    /\ Len(scene) = 2
    /\ pc = "drawing"
    /\ 2 * Len(FilledBy(1)) > QuadW * QuadH
    /\ 2 * Len(FilledBy(2)) > QuadW * QuadH
    /\ FillsItsSpans(2)

(***************************************************************************)
(* SpecDegenerate: frames of one triangle() call whose three vertices are  *)
(* on one row or on one column of the pixel grid, the edges of the screen  *)
(* (the coordinate 1.0) included, on both kinds of surface.                *)
(***************************************************************************)
\* the corners of the pixels of a surface of this size: x / width is a
\* screen coordinate in [0, 1] that to_local turns into x
GridPoints(size) == (0..size[1]) \X (0..size[2])

\* the screen point at grid point g, as vertex k
GridVertex(size, g, k) ==
    Point(Rat(g[1], size[1]), Rat(g[2], size[2]),
          Payload(Rat(k - 2, 2), TriAttrs[k]))

DrawDegenerateTriangle ==
    /\ scene = <<>>
    /\ \E g0 \in GridPoints(TriSize), g1 \in GridPoints(TriSize),
          g2 \in GridPoints(TriSize), shader \in LitShaderRefs :
         /\ \/ g0[1] = g1[1] /\ g1[1] = g2[1]
            \/ g0[2] = g1[2] /\ g1[2] = g2[2]
         /\ LET o0 == GridVertex(TriSize, g0, 1)
                o1 == GridVertex(TriSize, g1, 2)
                o2 == GridVertex(TriSize, g2, 3)
            IN  \E wraps \in TriangleBuilds(TriSize, o0, o1, o2) :
                    TriangleCall(o0, o1, o2, shader, wraps)

DegenerateNext == DrawDegenerateTriangle \/ Display \/ Surface

SpecDegenerate == TriInit /\ [][DegenerateNext]_vars

\* the pixel of vertex k of call c was handed to set_pixel_data by the call
VertexDelivered(c, k) ==
    \E i \in 1..Len(filled) :
        /\ filled[i].call = c
        /\ filled[i].x = LocalPoints(c)[k].x
        /\ filled[i].y = LocalPoints(c)[k].y

\* the local points of call c are on one row or on one column
IsDegenerate(c) ==
    LET p == LocalPoints(c)
    IN  \/ p[1].x = p[2].x /\ p[2].x = p[3].x
        \/ p[1].y = p[2].y /\ p[2].y = p[3].y

(***************************************************************************)
(* C19: a triangle() call whose three local points are on one row or on    *)
(* one column, or are one pixel, hands to set_pixel_data at least the      *)
(* pixels of its three vertices.                                           *)
(***************************************************************************)
C19_DegenerateDelivered ==
    \A c \in 1..Len(scene) :
        IsDegenerate(c) => \A k \in 1..3 : VertexDelivered(c, k)

\* what holds: the same of every call that did not panic
C19_DeliveredByReturnedCalls ==
    \A c \in 1..Len(scene) :
        (IsDegenerate(c) /\ pc # "panicked") => \A k \in 1..3 : VertexDelivered(c, k)

\* a call on one row with three different pixels, one of them in column 0
C19_ReturnedWitness ==
    /\ Len(scene) = 1
    /\ pc = "drawing"
    /\ LocalPoints(1)[1].y = LocalPoints(1)[2].y
    /\ LocalPoints(1)[2].y = LocalPoints(1)[3].y
    /\ LocalPoints(1)[1].x = 2
    /\ LocalPoints(1)[2].x = 0
    /\ LocalPoints(1)[3].x = 1
    /\ \A k \in 1..3 : VertexDelivered(1, k)

\* the endpoint the walk of the call starts at, and the other one
StartsAtP0 == lnOut[1].x = lnP0.x /\ lnOut[1].y = lnP0.y

WalkStart == IF StartsAtP0 THEN lnP0 ELSE lnP1

WalkEnd == IF StartsAtP0 THEN lnP1 ELSE lnP0

\* from item to item every channel moves from the payload of the start
\* towards the payload of the other endpoint
TowardsTheEnd ==
    /\ lnOut[1].interpolated = WalkStart.interpolated
    /\ \A i \in 1..(Len(lnOut) - 1), c \in Channels :
         LET from == WalkStart.interpolated[c]
             to == WalkEnd.interpolated[c]
             here == lnOut[i].interpolated[c]
             next == lnOut[i + 1].interpolated[c]
         IN  /\ FLt(from, to) => FLt(here, next) /\ FLt(next, to)
             /\ FLt(to, from) => FLt(next, here) /\ FLt(to, next)
             /\ from = to => next = here

(***************************************************************************)
(* C20, as stated: for all local points p0 and p1, line_points(p0, p1, f)  *)
(* and line_points(p1, p0, f) call f with the same sequence of             *)
(* (x, y, payload) triples, and the payload varies from that of the        *)
(* endpoint at the start of the walk towards that of the other.            *)
(***************************************************************************)
C20_LineSymmetricAsStated ==
    lnCalled =>
        /\ lnOut = line_points(lnP1, lnP0)
        /\ TowardsTheEnd

(***************************************************************************)
(* C20, amended: the same for endpoints on different pixels, and for       *)
(* endpoints on one pixel that carry the same payload; for endpoints on    *)
(* one pixel the single item carries the payload of the first argument.    *)
(***************************************************************************)
C20_LineSymmetric ==
    lnCalled =>
        /\ (lnP0.x # lnP1.x \/ lnP0.y # lnP1.y \/ lnP0.interpolated = lnP1.interpolated)
              => lnOut = line_points(lnP1, lnP0)
        /\ (lnP0.x = lnP1.x /\ lnP0.y = lnP1.y)
              => lnOut = <<lnP0>>
        /\ TowardsTheEnd

\* a low-slope line given right to left: it is walked from p1, whose
\* payload the first item carries
C20_Witness ==
    /\ lnCalled
    /\ lnP0.x = 3 /\ lnP0.y = 0
    /\ lnP1.x = 0 /\ lnP1.y = 1
    /\ lnP0.interpolated # lnP1.interpolated
    /\ Len(lnOut) = 4
    /\ lnOut[1].x = 0 /\ lnOut[1].y = 1
    /\ lnOut[1].interpolated = lnP1.interpolated
    /\ lnOut = line_points(lnP1, lnP0)


(***************************************************************************)
(* SpecMain: main's draw_length.  In Picture mode it draws one frame; in   *)
(* Console mode it loops: draw, set_rotation, update_transform, sleep.     *)
(* draw is surface(), Object::draw, display(); the frame is drawn on a     *)
(* NormalSurface and on a DeferredSurface at once.  The matrices are kept  *)
(* as terms that record what they were computed from.                      *)
(***************************************************************************)
MainSize == TriSize

\* Transform::combine: the matrix is a function of these fields
Transform_combined(self) ==
    <<"combine", self.position, self.scale, self.rotation, self.rotation_axis>>

\* the mutant stores the rotation and keeps the old matrix
Transform_set_rotation_NoCombine(self, rotation) ==
    [self EXCEPT !.rotation = rotation]

Transform_set_rotation(self, rotation) ==
    LET turned == [self EXCEPT !.rotation = rotation]
    IN  [turned EXCEPT !.combined = Transform_combined(turned)]

\* Transform::new(position, scale, rotation, rotation_axis)
Transform_make(position, scale, rotation, rotation_axis) ==
    LET out == [position |-> position, scale |-> scale, rotation |-> rotation,
                rotation_axis |-> rotation_axis, combined |-> <<>>]
    IN  [out EXCEPT !.combined = Transform_combined(out)]

\* Object::update_transform: points, world_points and normals are functions
\* of transform.matrix() (the model and the camera do not change)
Object_update_transform(self) ==
    [self EXCEPT !.points = <<"update_transform", self.transform.combined>>]

\* the transform main builds from the Config
MainTransform(c) ==
    Transform_make(<<FInt(0), FInt(0), FSub(FInt(0), c.distance)>>,
                   <<FInt(1), FInt(1), FInt(1)>>, c.rotation,
                   <<Rat(1, 5), Rat(3, 10), Rat(2, 5)>>)

\* Object::new
Object_new(transform) ==
    Object_update_transform([transform |-> transform, points |-> <<>>])

\* the Configs of the model: both modes, two rotations
MainConfigs ==
    {[draw_mode |-> m, size |-> MainSize, distance |-> FInt(50), rotation |-> r] :
        m \in {"Picture", "Console"}, r \in {Rat(9, 10), FInt(0)}}

\* the terminal holds the surface, or is one column short of it
Terminals == {MainSize, <<MainSize[1] - 1, MainSize[2]>>}

\* the triangles Object::draw may hand to the surface in a frame
MainTriangles == {<<1, FInt(0)>>, <<2, FInt(0)>>, <<1, Rat(1, 2)>>}

MainInit ==
    /\ InterpIdle
    /\ LineIdle
    /\ SurfIdle
    /\ DrawIdle
    /\ TexIdle
    /\ TfIdle
    /\ LateIdle
    /\ config \in MainConfigs
    /\ object = Object_new(MainTransform(config))
    /\ written = FALSE
    /\ terminal \in Terminals
    /\ mainPc = "draw"
    /\ counts = NoCounts
    /\ drawnWith = <<>>
    /\ screen = <<>>

\* draw: `let mut surface = drawable.surface();` and the entry of Object::draw
MainSurface ==
    /\ mainPc = "draw"
    /\ counts.surface < MaxFrames
    /\ SetFrame(FreshFrame(config.size))
    /\ pc' = "drawing"
    /\ logN' = <<>>
    /\ logD' = <<>>
    /\ scene' = <<>>
    /\ counts' = [counts EXCEPT !.surface = @ + 1]
    /\ drawnWith' = Append(drawnWith, object)
    /\ mainPc' = "object_draw"
    /\ UNCHANGED <<config, object, written, terminal, screen,
                   interpVars, lineVars, drawVars, texTfVars, lateVars>>

\* Object::draw hands a triangle to the surface
MainTriangle ==
    /\ mainPc = "object_draw"
    /\ scene = <<>>
    /\ \E t \in MainTriangles, shader \in ShaderRefs :
         \E wraps \in TriangleBuilds(MainSize, SceneVertex(t, 1), SceneVertex(t, 2),
                                      SceneVertex(t, 3)) :
            TriangleCall(SceneVertex(t, 1), SceneVertex(t, 2), SceneVertex(t, 3),
                         shader, wraps)

\* ConsoleScreen::prepare panics in move_cursor ("size too big")
PreparePanics ==
    /\ config.draw_mode = "Console"
    /\ written
    /\ \/ config.size[1] > terminal[1]
       \/ config.size[2] > terminal[2]

\* draw: `surface.display();`, prepare and then display on the sink of the
\* mode; draw_length returns after it in Picture mode
MainDisplay ==
    /\ mainPc = "object_draw"
    /\ pc = "drawing"
    /\ LET n == NormalSurface_display(normal)
           d == DeferredSurface_display(deferred)
       IN  IF PreparePanics
           THEN /\ logN' = Append(logN, n.calls[1])
                /\ logD' = Append(logD, d.calls[1])
                /\ shades' = [shades EXCEPT !.dDisplay = @ + d.executed]
                /\ counts' = [counts EXCEPT !.prepare = @ + 1]
                /\ pc' = "panicked"
                /\ mainPc' = "panicked"
                /\ UNCHANGED <<written, screen>>
           ELSE /\ logN' = logN \o n.calls
                /\ logD' = logD \o d.calls
                /\ shades' = [shades EXCEPT !.nDisplay = @ + n.executed,
                                            !.dDisplay = @ + d.executed]
                /\ counts' = [counts EXCEPT !.prepare = @ + 1, !.display = @ + 1]
                /\ written' = (written \/ config.draw_mode = "Console")
                /\ screen' = n.calls[2].colors
                /\ pc' = "displayed"
                /\ mainPc' = IF config.draw_mode = "Picture"
                             THEN "returned" ELSE "set_rotation"
    /\ UNCHANGED <<normal, deferred, hist, filled, outcome, scene, config, object,
                   terminal, drawnWith, interpVars, lineVars, drawVars, texTfVars,
                   lateVars>>

MainRest ==
    <<config, written, terminal, counts, drawnWith, screen, interpVars, lineVars,
      surfVars, drawVars, texTfVars, lateVars>>

\* `object.set_rotation(rotation + 0.25);`
MainSetRotation ==
    /\ mainPc = "set_rotation"
    /\ object' = [object EXCEPT !.transform =
                     Transform_set_rotation(@, FAdd(@.rotation, Rat(1, 4)))]
    /\ mainPc' = "update_transform"
    /\ UNCHANGED MainRest

\* `object.update_transform();`
MainUpdateTransform ==
    /\ mainPc = "update_transform"
    /\ object' = Object_update_transform(object)
    /\ mainPc' = "sleep"
    /\ UNCHANGED MainRest

\* `thread::sleep(...)`, and the loop begins again
MainSleep ==
    /\ mainPc = "sleep"
    /\ mainPc' = "draw"
    /\ UNCHANGED <<object, MainRest>>

MainNext ==
    \/ MainSurface
    \/ MainTriangle
    \/ MainDisplay
    \/ MainSetRotation
    \/ MainUpdateTransform
    \/ MainSleep

SpecMain == MainInit /\ [][MainNext]_vars


(***************************************************************************)
(* C21: every frame of draw_length starts from buffers holding depth 1.0   *)
(* and black (immediate) or depth 1.0 and no shader (deferred): a pixel    *)
(* that no write of the current frame reached holds the background, also   *)
(* when an earlier frame wrote it.                                         *)
(***************************************************************************)
C21_FreshSurfaceEachFrame ==
    mainPc # "draw" =>
        /\ normal.size = config.size
        /\ deferred.size = config.size
        /\ \A q \in Pixels(normal.size) : hist[q] = <<>> => HoldsBackground(q)
        /\ (mainPc = "object_draw" /\ scene = <<>>) =>
                IsFrame(FreshFrame(config.size))

\* the second frame is being drawn, and a pixel the first frame coloured
\* has not been written in it
C21_Witness ==
    /\ counts.surface = 2
    /\ mainPc = "object_draw"
    /\ \E q \in Pixels(normal.size) :
          /\ screen[CellOf(normal.size, q)] # Black
          /\ hist[q] = <<>>
          /\ HoldsBackground(q)


(***************************************************************************)
(* C22: in Console mode frame k (from 0) is drawn with rotation            *)
(* r0 + 0.25 * k, with the matrix combine computes from that rotation and  *)
(* with the points update_transform computes from that matrix; position,   *)
(* scale and rotation axis stay those main gave the transform.             *)
(***************************************************************************)
\* the Object a frame is to be drawn with after k rotations by 0.25
ObjectOfFrame(k) ==
    LET first == MainTransform(config)
        turned == [first EXCEPT !.rotation = FAdd(config.rotation, Rat(k, 4))]
        transform == [turned EXCEPT !.combined = Transform_combined(turned)]
    IN  [transform |-> transform,
         points |-> <<"update_transform", transform.combined>>]

C22_FramesFollowRotation ==
    \A k \in 1..Len(drawnWith) : drawnWith[k] = ObjectOfFrame(k - 1)

\* a second frame has been drawn, with the rotation a quarter further
C22_Witness ==
    /\ config.draw_mode = "Console"
    /\ Len(drawnWith) = 2
    /\ scene # <<>>
    /\ drawnWith[2].transform.rotation = FAdd(config.rotation, Rat(1, 4))
    /\ drawnWith[2].transform.combined # drawnWith[1].transform.combined
    /\ drawnWith[2].points # drawnWith[1].points


(***************************************************************************)
(* C23: in Picture mode draw_length makes one surface, one prepare and one *)
(* display and returns; in Console mode it never leaves the loop, and      *)
(* every iteration makes one surface, one prepare and one display.         *)
(***************************************************************************)
\* the iterations begun so far are complete: one of each call
WholeIterations ==
    /\ counts.prepare = counts.surface
    /\ counts.display = counts.surface

DrawLengthAsClaimed ==
    /\ config.draw_mode = "Picture" =>
          /\ mainPc \in {"draw", "object_draw", "returned"}
          /\ counts.surface <= 1
          /\ mainPc = "returned" => counts = [surface |-> 1, prepare |-> 1, display |-> 1]
    /\ config.draw_mode = "Console" =>
          /\ mainPc \in {"draw", "object_draw", "set_rotation", "update_transform", "sleep"}
          /\ mainPc # "object_draw" => WholeIterations

C23_DrawLength == mainPc # "idle" => DrawLengthAsClaimed

\* it holds while the terminal is as large as the surface
C23_WhenTheSurfaceFits ==
    (mainPc # "idle" /\ config.size[1] <= terminal[1] /\ config.size[2] <= terminal[2])
        => DrawLengthAsClaimed

\* the Picture run has returned; a Console run is in its second iteration
C23_PictureReturned == mainPc = "returned" /\ screen # <<>>

C23_SecondIteration ==
    /\ config.draw_mode = "Console"
    /\ counts = [surface |-> 2, prepare |-> 2, display |-> 2]


(***************************************************************************)
(* config.rs: Config::parse, applied to command lines of up to MaxArgs     *)
(* arguments.                                                              *)
(***************************************************************************)
\* the arguments a command line is made of
ArgTokens == {"-m", "-s", "-d", "-r", "-u", "-x", "console", "2 1", "5", "model.obj"}

\* the options that take a value
ValueOptions == {"-m", "-s", "-d", "-r"}

Ok(value) == [ok |-> TRUE, value |-> value]

Err(kind, arg) == [ok |-> FALSE, value |-> <<kind, arg>>]

\* `match value.to_lowercase().as_str()`
ParseMode(value) ==
    IF value \in {"picture", "console"} THEN Ok(value) ELSE Err("ParseError", value)

\* value.split(' ') and two parse_value calls
ParseSize(value) ==
    CASE value = "2 1" -> Ok(<<2, 1>>)
      [] value = "5" -> Err("DimensionMissing", "")
      [] OTHER -> Err("ParseError", value)

\* value.trim().parse::<f64>()
ParseF64(value) ==
    IF value = "5" THEN Ok(FInt(5)) ELSE Err("ParseError", value)

DefaultConfig ==
    [model_path |-> "", draw_mode |-> "picture", size |-> <<>>,
     distance |-> FInt(50), rotation |-> Rat(9, 10), undeferred |-> FALSE]

\* the while loop of Config::parse from argument i on, with the locals c
\* (model_path "" is None)
RECURSIVE ParseLoop(_, _, _)
ParseLoop(args, i, c) ==
    LET finish(locals) ==
            IF locals.model_path = "" THEN Err("PathMissing", "") ELSE Ok(locals)
    IN  IF i > Len(args) THEN finish(c)
        ELSE
        LET arg == args[i]
            \* args.next().ok_or(ConfigError::MissingValue(arg.clone()))
            next_value == IF i + 1 <= Len(args) THEN Ok(args[i + 1])
                          ELSE Err("MissingValue", arg)
            with(field, parsed) ==
                IF ~parsed.ok THEN parsed
                ELSE ParseLoop(args, i + 2, [c EXCEPT ![field] = parsed.value])
        IN  IF i + 1 > Len(args)
            THEN finish([c EXCEPT !.model_path = arg])
            ELSE CASE arg \in ValueOptions /\ ~next_value.ok -> next_value
                   [] arg = "-m" /\ next_value.ok ->
                        with("draw_mode", ParseMode(next_value.value))
                   [] arg = "-s" /\ next_value.ok ->
                        with("size", ParseSize(next_value.value))
                   [] arg = "-d" /\ next_value.ok ->
                        with("distance", ParseF64(next_value.value))
                   [] arg = "-r" /\ next_value.ok ->
                        with("rotation", ParseF64(next_value.value))
                   [] arg = "-u" -> ParseLoop(args, i + 1, [c EXCEPT !.undeferred = TRUE])
                   [] OTHER -> Err("InvalidArg", arg)

Config_parse(args) == ParseLoop(args, 1, DefaultConfig)

\* the command lines of the model
CommandLines == UNION {[1..n -> ArgTokens] : n \in 0..MaxArgs}

ConfigInit ==
    /\ InterpIdle
    /\ LineIdle
    /\ SurfIdle
    /\ DrawIdle
    /\ TexIdle
    /\ TfIdle
    /\ MainIdle
    /\ walked = NotWalked
    /\ loader = ModelParser_new
    /\ cfgArgs \in CommandLines
    /\ cfgResult = <<>>

ConfigParse ==
    /\ cfgResult = <<>>
    /\ cfgResult' = Config_parse(cfgArgs)
    /\ UNCHANGED <<cfgArgs, interpVars, lineVars, surfVars, drawVars, texTfVars,
                   mainVars, walked, loader>>

SpecConfig == ConfigInit /\ [][ConfigParse]_vars

(***************************************************************************)
(* C24: when a value-taking option (-m, -s, -d, -r) is the last argument,  *)
(* after arguments that parse, Config::parse returns                       *)
(* ConfigError::MissingValue(option).                                      *)
(***************************************************************************)
\* the command line without its last argument
Front(args) == SubSeq(args, 1, Len(args) - 1)

\* the arguments parse: with the model path appended, parse returns Ok
Parses(args) == Config_parse(args \o <<"model.obj">>).ok

C24_MissingValueReported ==
    (/\ cfgResult # <<>>
     /\ cfgArgs # <<>>
     /\ cfgArgs[Len(cfgArgs)] \in ValueOptions
     /\ Parses(Front(cfgArgs)))
        => cfgResult = Err("MissingValue", cfgArgs[Len(cfgArgs)])

\* parse returns MissingValue for no command line
C24_NeverMissingValue ==
    cfgResult # <<>> => (cfgResult.ok \/ cfgResult.value[1] # "MissingValue")

\* what it returns instead: the option as the model path
C24_OptionTakenAsPath ==
    (/\ cfgResult # <<>>
     /\ cfgArgs # <<>>
     /\ cfgArgs[Len(cfgArgs)] \in ValueOptions
     /\ Parses(Front(cfgArgs)))
        => cfgResult.ok /\ cfgResult.value.model_path = cfgArgs[Len(cfgArgs)]

C24_OptionLast ==
    /\ cfgResult # <<>>
    /\ Len(cfgArgs) = 3
    /\ cfgArgs[3] \in ValueOptions
    /\ Parses(Front(cfgArgs))


RECURSIVE MinDepth(_)
MinDepth(ws) ==
    IF ws = <<>> THEN FInt(1)
    ELSE FMin(MinDepth(SubSeq(ws, 1, Len(ws) - 1)), DepthOf(ws[Len(ws)]))

\* the depths the two surfaces store for pixel q
StoredDepths(n, d, q) ==
    <<n.depths[CellOf(n.size, q)],
      d.pixels[CellOf(d.size, q)].interpolated[DepthChannel]>>

DepthIsMin ==
    \A q \in DOMAIN hist :
        /\ StoredDepths(normal, deferred, q) = <<MinDepth(hist[q]), MinDepth(hist[q])>>
        /\ ~FLt(MinDepth(hist[q]), FInt(-1))
        /\ ~FGt(MinDepth(hist[q]), FInt(1))

\* a step of a frame: not the surface() that begins the next one
DepthsOnlyFall ==
    (pc # "displayed" /\ DOMAIN hist' = DOMAIN hist) =>
        \A q \in DOMAIN hist :
            /\ ~FGt(StoredDepths(normal', deferred', q)[1],
                    StoredDepths(normal, deferred, q)[1])
            /\ ~FGt(StoredDepths(normal', deferred', q)[2],
                    StoredDepths(normal, deferred, q)[2])
            /\ hist'[q] = hist[q] =>
                  /\ normal'.depths[CellOf(normal.size, q)]
                        = normal.depths[CellOf(normal.size, q)]
                  /\ normal'.colors[CellOf(normal.size, q)]
                        = normal.colors[CellOf(normal.size, q)]
                  /\ deferred'.pixels[CellOf(normal.size, q)]
                        = deferred.pixels[CellOf(normal.size, q)]

C26_DepthMonotone == []DepthIsMin /\ [][DepthsOnlyFall]_vars

\* a pixel was written twice, the second write closer, beside a pixel that
\* was not written and holds the background
C26_Witness ==
    \E q \in DOMAIN hist, r \in DOMAIN hist :
        /\ q # r
        /\ Len(hist[q]) = 2
        /\ FLt(DepthOf(hist[q][2]), DepthOf(hist[q][1]))
        /\ FLt(DepthOf(hist[q][1]), FInt(1))
        /\ StoredDepths(normal, deferred, q)
              = <<DepthOf(hist[q][2]), DepthOf(hist[q][2])>>
        /\ hist[r] = <<>>
        /\ HoldsBackground(r)


(***************************************************************************)
(* SpecWalks: the three edge walks of triangle() on any three local points *)
(* with coordinates in 0..LineMax.                                         *)
(***************************************************************************)
\* vertex k at pixel q
LocalVertex(q, k) == Point(q[1], q[2], Payload(Rat(k - 2, 2), TriAttrs[k]))

WalksInit ==
    /\ InterpIdle
    /\ LineIdle
    /\ SurfIdle
    /\ DrawIdle
    /\ TexIdle
    /\ TfIdle
    /\ MainIdle
    /\ CfgIdle
    /\ loader = ModelParser_new
    /\ \E q0 \in (0..LineMax) \X (0..LineMax), q1 \in (0..LineMax) \X (0..LineMax),
          q2 \in (0..LineMax) \X (0..LineMax) :
          walked = [NotWalked EXCEPT
                       !.points = <<LocalVertex(q0, 1), LocalVertex(q1, 2),
                                    LocalVertex(q2, 3)>>]

\* triangle() up to its fill loop
EdgeWalks ==
    /\ ~walked.done
    /\ LET t == TriangleSpans(walked.points[1], walked.points[2], walked.points[3])
       IN  walked' = [walked EXCEPT !.done = TRUE, !.min_y = t.min_y, !.ok = t.ok,
                                    !.spans = t.spans]
    /\ UNCHANGED <<interpVars, lineVars, surfVars, drawVars, texTfVars, mainVars,
                   cfgVars, loader>>

SpecWalks == WalksInit /\ [][EdgeWalks]_vars

(***************************************************************************)
(* C27: for any three local points, every pixel of the three edge walks    *)
(* has min_y <= y <= max_y, so no row lookup of line_pixel fails; every    *)
(* row of [min_y, max_y] is visited by a walk, and has                     *)
(* lower.limit <= upper.limit, so the subtraction of the fill loop does    *)
(* not go below zero.                                                      *)
(***************************************************************************)
\* the pixels the three walks visit
WalkedPixels ==
    LET p == walked.points
    IN  line_points(p[1], p[2]) \o line_points(p[2], p[3]) \o line_points(p[3], p[1])

C27_RowsCovered ==
    walked.done =>
        LET p == walked.points
            ys == {p[1].y, p[2].y, p[3].y}
            min_y == CHOOSE y \in ys : \A z \in ys : y <= z
            max_y == CHOOSE y \in ys : \A z \in ys : y >= z
        IN  /\ \A i \in 1..Len(WalkedPixels) :
                  min_y <= WalkedPixels[i].y /\ WalkedPixels[i].y <= max_y
            /\ walked.ok
            /\ walked.min_y = min_y
            /\ Len(walked.spans) = max_y - min_y + 1
            /\ \A y \in min_y..max_y :
                  /\ \E i \in 1..Len(WalkedPixels) : WalkedPixels[i].y = y
                  /\ ~ULt(walked.spans[y - min_y + 1].upper.limit,
                          walked.spans[y - min_y + 1].lower.limit)

\* a triangle of four rows with area has been walked
C27_Witness ==
    /\ walked.done
    /\ Len(walked.spans) = 4
    /\ \E i \in 1..Len(walked.spans) :
          walked.spans[i].lower.limit + 2 <= walked.spans[i].upper.limit
    /\ walked.points[1].y > walked.points[2].y


(***************************************************************************)
(* C28: line_low_points with x0 < x1 and |y1 - y0| < x1 - x0 emits one     *)
(* pixel for every x of [x0, x1] in order, the first (x0, y0), the last    *)
(* (x1, y1), y moving by at most 1 from pixel to pixel and staying between *)
(* y0 and y1; line_high_points with y0 < y1 and |x1 - x0| <= y1 - y0 does  *)
(* the same with x and y exchanged.                                        *)
(***************************************************************************)
\* out runs along `along` from a0 to a1 and across from c0 to c1
IsWalk(out, along, across, a0, c0, a1, c1) ==
    /\ Len(out) = a1 - a0 + 1
    /\ \A i \in 1..Len(out) :
          /\ out[i][along] = a0 + i - 1
          /\ (c0 <= out[i][across] /\ out[i][across] <= c1)
                \/ (c1 <= out[i][across] /\ out[i][across] <= c0)
    /\ out[1][across] = c0
    /\ out[Len(out)][across] = c1
    /\ \A i \in 1..(Len(out) - 1) : Abs(out[i + 1][across] - out[i][across]) <= 1

\* <<x, y>> of the points
Positions(points) == [i \in 1..Len(points) |-> <<points[i].x, points[i].y>>]

\* the endpoints of the call in the order of x, and in the order of y
ByX == IF lnP0.x > lnP1.x THEN <<lnP1, lnP0>> ELSE <<lnP0, lnP1>>

ByY == IF lnP0.y > lnP1.y THEN <<lnP1, lnP0>> ELSE <<lnP0, lnP1>>

LowCase == ByX[1].x < ByX[2].x /\ Abs(ByX[2].y - ByX[1].y) < ByX[2].x - ByX[1].x

HighCase == ByY[1].y < ByY[2].y /\ Abs(ByY[2].x - ByY[1].x) <= ByY[2].y - ByY[1].y

LowPixels ==
    Positions(line_low_points(ByX[1].x, ByX[1].y, ByX[2].x, ByX[2].y,
                              Interpolator_new(combine_interpolated(
                                  ByX[1].interpolated, ByX[2].interpolated))))

HighPixels ==
    Positions(line_high_points(ByY[1].x, ByY[1].y, ByY[2].x, ByY[2].y,
                               Interpolator_new(combine_interpolated(
                                   ByY[1].interpolated, ByY[2].interpolated))))

C28_BresenhamWalks ==
    lnCalled =>
        /\ LowCase =>
              /\ IsWalk(LowPixels, 1, 2, ByX[1].x, ByX[1].y, ByX[2].x, ByX[2].y)
              /\ Positions(lnOut) = LowPixels
        /\ HighCase =>
              /\ IsWalk(HighPixels, 2, 1, ByY[1].y, ByY[1].x, ByY[2].y, ByY[2].x)
              /\ Positions(lnOut) = HighPixels

\* a falling low-slope line given right to left
C28_Witness ==
    /\ lnCalled
    /\ lnP0.x = 3 /\ lnP0.y = 0
    /\ lnP1.x = 0 /\ lnP1.y = 2
    /\ LowCase
    /\ Positions(lnOut) = <<<<0, 2>>, <<1, 1>>, <<2, 1>>, <<3, 0>>>>

\* a diagonal, walked by line_high_points
C28_HighWitness ==
    /\ lnCalled
    /\ lnP0.x = 2 /\ lnP0.y = 0
    /\ lnP1.x = 0 /\ lnP1.y = 2
    /\ HighCase
    /\ Positions(lnOut) = <<<<2, 0>>, <<1, 1>>, <<0, 2>>>>


(***************************************************************************)
(* SpecLoader: ModelParser::parse on the mtllib, usemtl and f lines of an  *)
(* OBJ file.  A material is known by the name its newmtl line gave it;     *)
(* `usemtl` is the name of the last usemtl line, for the claim.            *)
(***************************************************************************)
MaterialNames == {"a", "b"}

\* the newmtl lines of the material libraries a mtllib line may name; the
\* last one defines a name twice
MtlFiles == {<<"a">>, <<"b">>, <<"a", "b">>, <<"a", "a">>}

\* Materials::add: [ok, self]
Materials_add(self, name) ==
    IF \E e \in self.material_indices : e[1] = name
    THEN [ok |-> FALSE, self |-> self]
    ELSE LET index == Len(self.materials)
         IN  [ok |-> TRUE,
              self |-> [material_indices |-> self.material_indices \cup {<<name, index>>},
                        materials |-> Append(self.materials, name),
                        current_material |-> <<index>>]]

\* Materials::set_current
Materials_set_current(self, name) ==
    [self EXCEPT !.current_material =
        IF \E e \in self.material_indices : e[1] = name
        THEN <<(CHOOSE e \in self.material_indices : e[1] = name)[2]>>
        ELSE <<>>]

Materials_clear_current(self) == [self EXCEPT !.current_material = <<>>]

\* the newmtl lines of a library from line k on: [ok, self]
RECURSIVE parse_mtl_lines(_, _, _)
parse_mtl_lines(self, file, k) ==
    IF k > Len(file) THEN [ok |-> TRUE, self |-> self]
    ELSE LET added == Materials_add(self, file[k])
         IN  IF added.ok THEN parse_mtl_lines(added.self, file, k + 1) ELSE added

\* a variant that hands the parent only the materials the library added;
\* C29_MaterialIndicesResolve holds of it
mtllib_line_ExtendsWithNew(p, file) ==
    LET read == parse_mtl_lines(p.materials, file, 1)
    IN  IF ~read.ok THEN [p EXCEPT !.result = "Err"]
        ELSE [p EXCEPT !.materials = Materials_clear_current(read.self),
                       !.parent.materials =
                           @ \o SubSeq(read.self.materials,
                                       Len(p.materials.materials) + 1,
                                       Len(read.self.materials))]

\* parse_obj_line on `mtllib file`
mtllib_line(p, file) ==
    LET read == parse_mtl_lines(p.materials, file, 1)
    IN  IF ~read.ok THEN [p EXCEPT !.result = "Err"]
        ELSE [p EXCEPT !.materials = Materials_clear_current(read.self),
                       !.parent.materials = @ \o read.self.materials]

\* parse_obj_line on `usemtl name`
usemtl_line(p, name) ==
    [p EXCEPT !.materials = Materials_set_current(@, name), !.usemtl = <<name>>]

\* parse_obj_line on an `f` line of three corners: the push of parse_face
face_line(p) ==
    [p EXCEPT !.parent.material_indices =
        Append(@, [index |-> p.materials.current_material, usemtl |-> p.usemtl])]

LoaderInit ==
    /\ InterpIdle
    /\ LineIdle
    /\ SurfIdle
    /\ DrawIdle
    /\ TexIdle
    /\ TfIdle
    /\ MainIdle
    /\ CfgIdle
    /\ walked = NotWalked
    /\ loader = ModelParser_new

ReadLine(after) ==
    /\ loader.result = "reading"
    /\ loader.lines < MaxObjLines
    /\ loader' = [after EXCEPT !.lines = @ + 1]
    /\ UNCHANGED <<interpVars, lineVars, surfVars, drawVars, texTfVars, mainVars,
                   cfgVars, walked>>

ReadMtllib == \E file \in MtlFiles : ReadLine(mtllib_line(loader, file))

ReadUsemtl == \E name \in MaterialNames \cup {"c"} : ReadLine(usemtl_line(loader, name))

ReadFace == ReadLine(face_line(loader))

\* the file ends: parse returns Ok
ReadEnd ==
    /\ loader.result = "reading"
    /\ loader' = [loader EXCEPT !.result = "Ok"]
    /\ UNCHANGED <<interpVars, lineVars, surfVars, drawVars, texTfVars, mainVars,
                   cfgVars, walked>>

LoaderNext == ReadMtllib \/ ReadUsemtl \/ ReadFace \/ ReadEnd

SpecLoader == LoaderInit /\ [][LoaderNext]_vars

(***************************************************************************)
(* C29: after any mtllib, usemtl and f lines that parse, every Some(i) in  *)
(* model.material_indices has i < model.materials.len(), and               *)
(* model.materials[i] is the material named by the usemtl line in effect   *)
(* when the face was read.                                                 *)
(***************************************************************************)
C29_MaterialIndicesResolve ==
    loader.result # "Err" =>
        \A k \in 1..Len(loader.parent.material_indices) :
            LET face == loader.parent.material_indices[k]
            IN  face.index # <<>> =>
                  /\ face.index[1] < Len(loader.parent.materials)
                  /\ face.usemtl # <<>>
                  /\ loader.parent.materials[face.index[1] + 1] = face.usemtl[1]

\* what holds: the index is inside model.materials
C29_IndicesInRange ==
    loader.result # "Err" =>
        \A k \in 1..Len(loader.parent.material_indices) :
            LET face == loader.parent.material_indices[k]
            IN  face.index # <<>> =>
                  /\ face.index[1] < Len(loader.parent.materials)
                  /\ face.usemtl # <<>>

\* and names the material of the usemtl line among the parser's own
C29_ResolvesInParser ==
    loader.result # "Err" =>
        \A k \in 1..Len(loader.parent.material_indices) :
            LET face == loader.parent.material_indices[k]
            IN  face.index # <<>> =>
                  loader.materials.materials[face.index[1] + 1] = face.usemtl[1]

\* two libraries were read and a face uses a material of the second
C29_TwoLibraries ==
    /\ loader.result = "Ok"
    /\ Len(loader.parent.materials) = 3
    /\ \E k \in 1..Len(loader.parent.material_indices) :
          loader.parent.material_indices[k].index = <<1>>


(***************************************************************************)
(* SpecOutside: triangle() calls whose vertices are inside the viewport,   *)
(* left of or below it, and right of or above it.                          *)
(***************************************************************************)
\* screen coordinates below 0, in [0, 1) and above 1
OutsideCoords == {Rat(-1, 2), Rat(1, 2), Rat(3, 2)}

\* vertex k at the screen point <<x, y>>
OutsideVertex(g, k) == Point(g[1], g[2], Payload(FInt(0), TriAttrs[k]))

DrawOutsideTriangle ==
    /\ scene = <<>>
    /\ \E g0 \in OutsideCoords \X OutsideCoords, g1 \in OutsideCoords \X OutsideCoords,
          g2 \in OutsideCoords \X OutsideCoords, shader \in ShaderRefs :
         LET o0 == OutsideVertex(g0, 1)
             o1 == OutsideVertex(g1, 2)
             o2 == OutsideVertex(g2, 3)
         IN  \E wraps \in TriangleBuilds(TriSize, o0, o1, o2) :
                 TriangleCall(o0, o1, o2, shader, wraps)

OutsideNext == DrawOutsideTriangle \/ Display \/ Surface

SpecOutside == TriInit /\ [][OutsideNext]_vars

(***************************************************************************)
(* C30: to_local gives a screen coordinate in [0, 1) a pixel coordinate in *)
(* [0, size), and every coordinate outside [0, 1), a negative one too, a   *)
(* local coordinate that set_pixel_data rejects (x >= width or             *)
(* y >= height); a triangle outside the viewport writes no pixel.          *)
(***************************************************************************)
InUnit(a) == ~FLt(a, FInt(0)) /\ FLt(a, FInt(1))

\* the vertices of the calls of the frame
SceneVertices ==
    UNION {{scene[c].o0, scene[c].o1, scene[c].o2} : c \in 1..Len(scene)}

\* all vertices of call c have a coordinate outside [0, 1) on one axis
WhollyOutside(c) ==
    \/ \A o \in {scene[c].o0, scene[c].o1, scene[c].o2} : ~InUnit(o.x)
    \/ \A o \in {scene[c].o0, scene[c].o1, scene[c].o2} : ~InUnit(o.y)

C30_OutsideIsRejected ==
    /\ \A o \in SceneVertices :
          LET p == to_local(normal.size, o)
          IN  /\ InUnit(o.x) <=> (0 <= p.x /\ p.x < normal.size[1])
              /\ InUnit(o.y) <=> (0 <= p.y /\ p.y < normal.size[2])
    /\ \A c \in 1..Len(scene) :
          WhollyOutside(c) => \A q \in DOMAIN hist : hist[q] = <<>>

\* what holds: a coordinate in [0, 1) is inside, one at or above 1 is not
C30_InsideAndBeyond ==
    \A o \in SceneVertices :
        LET p == to_local(normal.size, o)
        IN  /\ InUnit(o.x) => (0 <= p.x /\ p.x < normal.size[1])
            /\ InUnit(o.y) => (0 <= p.y /\ p.y < normal.size[2])
            /\ ~FLt(o.x, FInt(1)) => p.x >= normal.size[1]
            /\ ~FLt(o.y, FInt(1)) => p.y >= normal.size[2]

\* a triangle left of the viewport has coloured a pixel of column 0
C30_NegativeWritten ==
    /\ pc = "displayed"
    /\ scene # <<>>
    /\ \A o \in SceneVertices : FLt(o.x, FInt(0)) /\ InUnit(o.y)
    /\ \E q \in DOMAIN hist : q[1] = 0 /\ hist[q] # <<>>

=============================================================================
